---- MODULE Spec2Model ----
(***************************************************************************)
(* A model of the market monitor backend: the bounded Metric Store          *)
(* (backend/store.py), the trade batch aggregator and the websocket hub     *)
(* (backend/app.py) and the ZMQ ingestion worker (backend/subscriber.py).   *)
(*                                                                          *)
(* Each component has its own specification over the shared variables:      *)
(*   SpecStore       add_xdp_payload / add_integrity_payload                *)
(*   SpecAlertBurst  add_integrity_payload, one failing payload, long run   *)
(*   SpecAgg         TradeBatchAggregator.add and the timer-driven _flush   *)
(*   SpecWorker      ZMQSubscriber.run / stop                               *)
(*   SpecHub         WebsocketHub.add / remove / broadcast on the loop      *)
(***************************************************************************)
EXTENDS Integers, Sequences, FiniteSets, TLC

VARIABLES
    \* ---- MetricStore (store.py) ----
    xdp_points,           \* self._xdp_points
    integrity_points,     \* self._integrity_points
    integrity_retention,  \* self._integrity_retention: stream -> points
    xdp_series,           \* self._xdp_series: key -> deque of entries
    integrity_series,     \* self._integrity_series: key -> deque of entries
    xdp_stream_counts,    \* self._xdp_stream_counts: stream -> count
    alerts,               \* self._alerts: deque(maxlen=...)
    appended,             \* history: every entry ever appended, in append order
    \* ---- TradeBatchAggregator (app.py) ----
    batches,              \* self._batches: key -> pending batch
    timers,               \* the threading.Timer of each batch ever created
    flushes,              \* the _flush call running on each timer thread
    processed,            \* history: the processor invocations, in order
    accepted,             \* history: the payloads add() took, with their batch
    now,                  \* wall clock, in ticks
    \* ---- ZMQSubscriber (subscriber.py) ----
    w_pc,                 \* where run() is
    stop_event,           \* self._stop_event
    socket_open,          \* self._socket is open
    w_frames,             \* the frames recv_multipart returned last
    w_payload,            \* the (topic, payload) _decode_frames returned
    received,             \* history: frames received, in order
    handled,              \* history: handler invocations and their outcome
    stored,               \* history: frames whose handler reached the store
    \* ---- WebsocketHub (app.py) ----
    connections,          \* self._connections
    ws_pc,                \* where metrics_ws is for each websocket
    inbox,                \* what each websocket's client has been sent
    passes,               \* the broadcast coroutines, by message number
    was_registered,       \* history: websockets add() has appended
    \* ---- TradeBatchAggregator.drain (app.py) ----
    drain,                \* where the drain() call is, and what it holds
    \* ---- threads inside the MetricStore (store.py) ----
    lock,                 \* self._lock: the thread holding it, or None
    th,                   \* where each thread is in its add_* / snapshot call
    snaps,                \* history: what the snapshot() calls returned
    returned,             \* history: the entries whose add_* call has returned
    \* ---- the application (app.py create_app) ----
    loop,                 \* app.state.loop is set
    scheduled,            \* the messages _schedule handed to hub.broadcast
    subs,                 \* the subscriber threads started by _startup
    shutdown_pc,          \* where _shutdown is
    \* ---- callers of the MetricStore's queries (store.py) ----
    answer,               \* the call being made, then what it returned
    held                  \* a snapshot() value its caller still holds

storeVars == <<xdp_points, integrity_points, integrity_retention, xdp_series,
               integrity_series, xdp_stream_counts, alerts, appended>>
aggVars == <<batches, timers, flushes, processed, accepted, now>>
workerVars == <<w_pc, stop_event, socket_open, w_frames, w_payload, received,
                handled, stored>>
hubVars == <<connections, ws_pc, inbox, passes, was_registered>>
drainVars == <<drain>>
threadVars == <<lock, th, snaps, returned>>
appVars == <<loop, scheduled, subs, shutdown_pc>>
queryVars == <<answer, held>>
restVars == <<drainVars, threadVars, appVars, queryVars>>
vars == <<storeVars, aggVars, workerVars, hubVars, restVars>>

(***************************************************************************)
(* Bounds of the model.                                                     *)
(***************************************************************************)
MaxPoints == 2        \* the largest configured xdp_points / integrity_points
MaxAdds == 4          \* add_* calls in one run of SpecStore
MaxBurst == 130       \* add_integrity_payload calls in one run of SpecAlertBurst
MaxAggAdds == 2       \* TradeBatchAggregator.add calls in one run
MaxTime == 5          \* clock ticks in one run
MaxFrames == 3        \* frames the worker receives in one run
MaxMessages == 2      \* broadcast passes in one run
MaxAppMessages == 1   \* messages the subscriber threads take in one run
MaxAppTime == 2       \* clock ticks in one run of the application
MaxThreadCalls == 3   \* add_* calls of the concurrent threads in one run
MaxSnaps == 2         \* snapshot() calls in one run
MaxDrainAdds == 2     \* TradeBatchAggregator.add calls in one run with drain()
MaxDrainTime == 2     \* clock ticks in one run with drain()
MaxQueryAdds == 3     \* add_* calls in one run with queries

(***************************************************************************)
(* Python values.                                                           *)
(***************************************************************************)
None == "<None>"

Max(a, b) == IF a >= b THEN a ELSE b

\* str.lower() on the strings the model uses
Lower(s) ==
    CASE s = "S1" -> "s1"
      [] s = "EX" -> "ex"
      [] s = "OK" -> "ok"
      [] s = "FAIL" -> "fail"
      [] s = "Trade" -> "trade"
      [] s = "BTC" -> "btc"
      [] s = "LIVE" -> "live"
      [] OTHER -> s

\* str.upper() on the strings the model uses
Upper(s) ==
    CASE s = "btc" -> "BTC"
      [] s = "eth" -> "ETH"
      [] s = "s1" -> "S1"
      [] s = "ex" -> "EX"
      [] s = "__batch__" -> "__BATCH__"
      [] OTHER -> s

\* "|".join(parts)
RECURSIVE Join(_)
Join(parts) ==
    IF Len(parts) = 0 THEN ""
    ELSE IF Len(parts) = 1 THEN parts[1]
    ELSE parts[1] \o "|" \o Join(Tail(parts))

\* [x for x in dict.fromkeys(x for x in items if x)]
RECURSIVE Dedupe(_)
Dedupe(items) ==
    IF items = <<>> THEN <<>>
    ELSE LET rest == Dedupe(SubSeq(items, 1, Len(items) - 1))
             last == items[Len(items)]
         IN IF last = "" \/ \E i \in 1..Len(rest) : rest[i] = last
            THEN rest
            ELSE Append(rest, last)

\* the last n elements of s (all of s when it has no more than n)
Suffix(s, n) ==
    IF Len(s) <= n THEN s ELSE SubSeq(s, Len(s) - n + 1, Len(s))

\* deque.popleft() repeated while len(series) > limit
RECURSIVE PopLeftWhileOver(_, _)
PopLeftWhileOver(series, limit) ==
    IF Len(series) > limit
    THEN PopLeftWhileOver(Tail(series), limit)
    ELSE series

\* the entries popleft() removed, oldest first
Evicted(series, limit) ==
    SubSeq(series, 1, Len(series) - Len(PopLeftWhileOver(series, limit)))

\* dict access: d.get(key, default), d[key] = value, d.pop(key, None)
Get(d, key, default) == IF key \in DOMAIN d THEN d[key] ELSE default
Put(d, key, value) ==
    [k \in DOMAIN d \cup {key} |-> IF k = key THEN value ELSE d[k]]
Pop(d, key) == [k \in DOMAIN d \ {key} |-> d[k]]
EmptyDict == [k \in {} |-> None]

(***************************************************************************)
(* MetricStore: the payloads fed to it.                                     *)
(***************************************************************************)
AlertFloor == 128     \* deque(maxlen=max(self._integrity_points, 128))

XdpPayload(host, iface, ts, avg, max) ==
    [hostname |-> host, interface |-> iface, timestamp |-> ts,
     metrics |-> [bps_avg |-> avg, bps_max |-> max]]

\* (source, payload) of the add_xdp_payload calls
XdpInputs ==
    { <<"x1", XdpPayload("h1", "eth0", 1000, 100, 200)>>,
      <<"x2", XdpPayload("h1", "eth0", 1001, 300, 300)>>,
      <<"x1", XdpPayload("h2", "", 1002, 0, 50)>> }

ResultItem(sym, st, reqs) == [symbol |-> sym, status |-> st, requests |-> reqs]
Request(nm, st) == [name |-> nm, status |-> st]

IntegrityPayload(ex, ty, stg, st, res, ts) ==
    [exchange |-> ex, type |-> ty, stage |-> stg, status |-> st,
     results |-> res, timestamp |-> ts, symbol |-> "btc",
     hostname |-> "", interface |-> ""]

NoDefaults == [hostname |-> None, interface |-> None]

\* (source, payload, defaults) of the add_integrity_payload calls
IntegrityInputs ==
    { <<"s1", IntegrityPayload("ex", "kline", "", "ok", <<>>, 1000), NoDefaults>>,
      <<"s1", IntegrityPayload("EX", "kline", "", "FAIL", <<>>, 1001), NoDefaults>>,
      <<"s1", IntegrityPayload("ex", "kline", "", "",
              <<ResultItem("btc", "fail", <<>>), ResultItem("eth", "ok", <<>>)>>,
              1002), NoDefaults>>,
      <<"s1", IntegrityPayload("ex", "kline", "", "",
              <<ResultItem("btc", "ok", <<Request("depth", "ok")>>)>>,
              1003), NoDefaults>>,
      <<"s2", IntegrityPayload("ex", "depth", "live", "error", <<>>, 1001),
        [hostname |-> "h1", interface |-> None]>> }

\* the one payload of SpecAlertBurst
BurstInput ==
    <<"s1", IntegrityPayload("ex", "kline", "", "fail", <<>>, 1000), NoDefaults>>

(***************************************************************************)
(* MetricStore: helpers.                                                    *)
(***************************************************************************)
\* _coerce_timestamp: seconds (ts >= 1_000_000_000_000 is milliseconds, written
\* here with numbers the checker can hold); 0 stands for its None (a missing field is -1,
\* what _as_float(value, default=-1.0) makes of it)
CoerceTimestamp(value) ==
    IF value <= 0 THEN 0
    ELSE IF value \div 1000000 >= 1000000 THEN value \div 1000
    ELSE value

IntegrityRetentionLimit(stream) ==
    Get(integrity_retention, stream, integrity_points)

AlertMaxLen == Max(integrity_points, AlertFloor)

\* deque(maxlen=n).append(x): a full deque drops its oldest entry
AppendMaxLen(dq, x, n) == Suffix(Append(dq, x), n)

ComposeIntegrityKey(stream_name, hostname, interface, exchange, symbol, stage, event_type) ==
    LET parts ==
            (IF stream_name # "" THEN <<Lower(stream_name)>> ELSE <<>>)
         \o (IF hostname # "" THEN <<hostname>> ELSE <<>>)
         \o (IF interface # "" THEN <<interface>> ELSE <<>>)
         \o (IF exchange # "" THEN <<Lower(exchange)>> ELSE <<>>)
         \o (IF stage # "" THEN <<Lower(stage)>> ELSE <<>>)
         \o (IF event_type # "" THEN <<Lower(event_type)>> ELSE <<>>)
         \o (IF symbol # "" THEN <<Upper(symbol)>> ELSE <<>>)
    IN IF parts = <<>> THEN "integrity" ELSE Join(parts)

\* the failed_symbols list before de-duplication
RECURSIVE RawFailedSymbols(_)
RawFailedSymbols(results) ==
    IF results = <<>> THEN <<>>
    ELSE LET item == Head(results)
             status == Lower(item.status)
         IN (IF status # "" /\ status # "ok"
             THEN <<Upper(item.symbol)>> ELSE <<>>)
            \o RawFailedSymbols(Tail(results))

\* the labels one result item adds to failed_requests
RECURSIVE RequestLabels(_, _)
RequestLabels(symbol_norm, requests) ==
    IF requests = <<>> THEN <<>>
    ELSE LET req == Head(requests)
             label == IF req.name # "" THEN req.name ELSE "unknown"
         IN (IF Lower(req.status) # "ok"
             THEN <<IF symbol_norm # "" THEN symbol_norm \o ":" \o label
                    ELSE label>>
             ELSE <<>>)
            \o RequestLabels(symbol_norm, Tail(requests))

RECURSIVE RawFailedRequests(_)
RawFailedRequests(results) ==
    IF results = <<>> THEN <<>>
    ELSE RequestLabels(Upper(Head(results).symbol), Head(results).requests)
         \o RawFailedRequests(Tail(results))

\* (mutant) only the status decides
EntryIsOk_StatusOnly(status0, any_failed) == status0 = "ok"

\* entry["is_ok"], lines 253-256: status0 is the lower-cased status of the
\* payload, any_failed whether failed_symbols or failed_requests is non-empty
EntryIsOk(status0, any_failed) ==
    LET is_ok0 == IF status0 # "" THEN status0 = "ok" ELSE ~any_failed
    IN IF status0 = "" /\ any_failed THEN FALSE ELSE is_ok0

\* (mutant) the payload's value first
TagOf_PayloadFirst(configured, carried) ==
    IF carried # "" THEN carried
    ELSE IF configured \notin {None, ""} THEN configured ELSE ""

\* lines 168-169: defaults.get(tag) or payload.get(tag) or ""
TagOf(configured, carried) ==
    IF configured \notin {None, ""} THEN configured ELSE carried

\* the entry add_integrity_payload builds (store.py lines 162-273, 279-290)
IntegrityEntry(source, payload, defaults, n) ==
    LET exchange == payload.exchange
        event_type == Lower(payload.type)
        stage == payload.stage
        hostname == TagOf(defaults.hostname, payload.hostname)
        interface == TagOf(defaults.interface, payload.interface)
        coerced == CoerceTimestamp(payload.timestamp)
        timestamp == IF coerced > 0 THEN coerced ELSE now
        status0 == Lower(payload.status)
        failed_symbols == Dedupe(RawFailedSymbols(payload.results))
        failed_requests == Dedupe(RawFailedRequests(payload.results))
        any_failed == failed_symbols # <<>> \/ failed_requests # <<>>
        status == IF status0 = "" /\ any_failed THEN "fail" ELSE status0
        is_ok == EntryIsOk(status0, any_failed)
        stream_name == IF source \notin {None, ""} THEN source ELSE "integrity"
        key == ComposeIntegrityKey(stream_name, hostname, interface, exchange,
                                   "", stage, event_type)
    IN [exchange |-> exchange, timestamp |-> timestamp, type |-> event_type,
        stage |-> stage, status |-> status, source |-> source,
        hostname |-> hostname, interface |-> interface,
        symbol |-> Upper(payload.symbol), is_ok |-> is_ok,
        failed_symbols |-> failed_symbols, failed_requests |-> failed_requests,
        key |-> key, stream |-> stream_name, n |-> n]

\* the entry add_xdp_payload builds (store.py lines 86-123)
XdpEntry(source, payload, n) ==
    [hostname |-> payload.hostname, interface |-> payload.interface,
     timestamp |-> payload.timestamp,
     avg_bps |-> payload.metrics.bps_avg, max_bps |-> payload.metrics.bps_max,
     source |-> source, n |-> n]

XdpKey(payload) == payload.hostname \o "|" \o payload.interface

\* A field of a payload as json.loads delivers it: absent (None), a number,
\* a string that is no number, or an integer too large for a float.  A
\* timestamp may also be a number past the year 9999 when read as seconds
\* (seconds given in milliseconds).
Absent == [kind |-> "none"]
Number(v) == [kind |-> "num", v |-> v]
Text == [kind |-> "text"]
HugeInt == [kind |-> "huge"]
PastYear9999 == [kind |-> "late"]

\* `a or b` on two such fields
Or(a, b) ==
    IF a.kind = "none" \/ (a.kind = "num" /\ a.v = 0) THEN b ELSE a

\* _as_float(value, default): float(value), the default on TypeError and
\* ValueError; float() of an integer too large raises OverflowError
AsFloat(value, default) ==
    IF value.kind \in {"none", "text"} THEN [raised |-> None, v |-> default]
    ELSE IF value.kind = "huge" THEN [raised |-> "OverflowError", v |-> default]
    ELSE [raised |-> None, v |-> value.v]

\* add_xdp_payload, lines 86-123, on a payload with the fields hostname,
\* interface, timestamp and metrics; metrics is a dict with bps_avg and
\* bps_max, or a list.  What is raised, or the clean payload the entry is
\* built from.
ParseXdpPayload(raw) ==
    LET timestamp == IF raw.timestamp.kind = "late" THEN raw.timestamp
                     ELSE AsFloat(raw.timestamp, now)
        avg_bps == AsFloat(Or(raw.metrics.bps_avg, Absent), 0)
        max_bps == AsFloat(Or(raw.metrics.bps_max, Absent), 0)
    IN IF raw.metrics.kind = "list"
       THEN [raised |-> "AttributeError"]
       ELSE IF raw.timestamp.kind = "huge"
       THEN [raised |-> "OverflowError"]
       ELSE IF raw.timestamp.kind = "late"
       THEN [raised |-> "ValueError"]
       ELSE IF avg_bps.raised # None THEN [raised |-> avg_bps.raised]
       ELSE IF max_bps.raised # None THEN [raised |-> max_bps.raised]
       ELSE [raised |-> None,
             payload |-> XdpPayload(raw.hostname, raw.interface, timestamp.v,
                                    avg_bps.v, max_bps.v)]

\* lines 129 and 133: str(source or "default")
StreamName(source) == IF source \in {None, ""} THEN "default" ELSE source

\* (mutant) the counter of an evicted entry stays
ReleaseCounts_Keep(counts, removed) == counts

\* the per-stream counters after the evicted entries are taken out
RECURSIVE ReleaseCounts(_, _)
ReleaseCounts(counts, removed) ==
    IF removed = <<>> THEN counts
    ELSE LET removed_source == StreamName(Head(removed).source)
             current == Get(counts, removed_source, 0)
         IN ReleaseCounts(
                IF current <= 1 THEN Pop(counts, removed_source)
                ELSE Put(counts, removed_source, current - 1),
                Tail(removed))

(***************************************************************************)
(* MetricStore: the operations.  Each runs under self._lock, so it is one   *)
(* step.                                                                    *)
(***************************************************************************)
\* (mutant) pop() instead of popleft(): the newest entries go
TrimSeries_PopRight(series, limit) ==
    IF Len(series) > limit THEN SubSeq(series, 1, limit) ELSE series

\* which entries of a series popleft() keeps after an append
TrimSeries(series, limit) == PopLeftWhileOver(series, limit)

\* (mutant) every entry is filed in the alert log
IsAlert_Always(entry) == TRUE

\* whether add_integrity_payload files the entry in the alert log
IsAlert(entry) == ~entry.is_ok

\* (mutant) the alert deque is bounded like a series
AlertBound_LikeSeries == integrity_points

\* the bound of the alert deque
AlertBound == AlertMaxLen

AddXdpPayload(source, payload) ==
    LET key == XdpKey(payload)
        entry == XdpEntry(source, payload, Len(appended) + 1)
        grown == Append(Get(xdp_series, key, <<>>), entry)
        stream_name == StreamName(source)
        counted == Put(xdp_stream_counts, stream_name,
                       Get(xdp_stream_counts, stream_name, 0) + 1)
    IN /\ xdp_series' = Put(xdp_series, key, TrimSeries(grown, xdp_points))
       /\ xdp_stream_counts' = ReleaseCounts(counted, Evicted(grown, xdp_points))
       /\ appended' = Append(appended,
                             [scope |-> "xdp", key |-> key, entry |-> entry])
       /\ UNCHANGED <<xdp_points, integrity_points, integrity_retention,
                      integrity_series, alerts>>

AddIntegrityPayload(source, payload, defaults) ==
    \E entry \in {IntegrityEntry(source, payload, defaults, Len(appended) + 1)} :
      LET key == entry.key
          grown == Append(Get(integrity_series, key, <<>>), entry)
          retention_limit == IntegrityRetentionLimit(entry.stream)
      IN /\ integrity_series' =
                Put(integrity_series, key, TrimSeries(grown, retention_limit))
         /\ alerts' = IF IsAlert(entry)
                      THEN AppendMaxLen(alerts, entry, AlertBound)
                      ELSE alerts
         /\ appended' = Append(appended,
                               [scope |-> "integrity", key |-> key, entry |-> entry])
         /\ UNCHANGED <<xdp_points, integrity_points, integrity_retention,
                        xdp_series, xdp_stream_counts>>

\* (mutant) any number is kept as the override
RetentionOverride_AnyNumber(points) ==
    IF points.kind = "num" THEN points.v ELSE 0

\* set_integrity_retention, lines 62-70: the override for `points`, a field
\* as above; 0 stands for None (points is None, int(points) raises, or the
\* integer is not positive)
RetentionOverride(points) ==
    IF points.kind = "num" /\ points.v > 0 THEN points.v ELSE 0

\* MetricStore.set_integrity_retention(stream, points)
SetIntegrityRetention(stream, points) ==
    /\ integrity_retention' =
           IF RetentionOverride(points) = 0
           THEN Pop(integrity_retention, stream)
           ELSE Put(integrity_retention, stream, RetentionOverride(points))
    /\ UNCHANGED <<xdp_points, integrity_points, xdp_series, integrity_series,
                   xdp_stream_counts, alerts, appended>>

\* MetricStore.__init__ followed by the set_integrity_retention calls of startup
StoreInit(xp, ip, retention) ==
    /\ xdp_points = xp
    /\ integrity_points = Max(ip, 1)
    /\ integrity_retention = retention
    /\ xdp_series = EmptyDict
    /\ integrity_series = EmptyDict
    /\ xdp_stream_counts = EmptyDict
    /\ alerts = <<>>
    /\ appended = <<>>

\* the per-stream overrides of the deployment: stream s1 keeps one point,
\* every other stream the global integrity_points
RetentionConfigs == { "s1" :> 1 }

(***************************************************************************)
(* MetricStore: the queries (store.py).  A dict is iterated in the order    *)
(* its keys were inserted; a series' key is inserted by the first append    *)
(* for it and never removed.                                                *)
(***************************************************************************)
\* the keys of a scope in the order of their first append, among the first
\* i appends
RECURSIVE InsertionOrder(_, _)
InsertionOrder(scope, i) ==
    IF i = 0 THEN <<>>
    ELSE LET rest == InsertionOrder(scope, i - 1)
         IN IF /\ appended[i].scope = scope
               /\ \A j \in 1..Len(rest) : rest[j] # appended[i].key
            THEN Append(rest, appended[i].key)
            ELSE rest

\* a filter argument that is None or "" is not applied
Applies(filter) == filter \notin {None, ""}

\* (mutant) one filter that matches is enough
PointMatches_Any(point, filters) ==
    \/ Applies(filters.exchange) /\ point.exchange = filters.exchange
    \/ Applies(filters.symbol) /\ point.symbol = filters.symbol
    \/ Applies(filters.hostname) /\ point.hostname = filters.hostname
    \/ Applies(filters.interface) /\ point.interface = filters.interface
    \/ Applies(filters.type_filter) /\ point.type = filters.type_filter
    \/ Applies(filters.stage) /\ point.stage = filters.stage

\* integrity_series, lines 425-440: the point passes every filter given
PointMatches(point, filters) ==
    /\ Applies(filters.exchange) => point.exchange = filters.exchange
    /\ Applies(filters.symbol) => point.symbol = filters.symbol
    /\ Applies(filters.hostname) => point.hostname = filters.hostname
    /\ Applies(filters.interface) => point.interface = filters.interface
    /\ Applies(filters.type_filter) => point.type = filters.type_filter
    /\ Applies(filters.stage) => point.stage = filters.stage

\* integrity_series, lines 423-453: the matching points, series by series
RECURSIVE CollectRecords(_, _)
CollectRecords(keys, filters) ==
    IF keys = <<>> THEN <<>>
    ELSE SelectSeq(integrity_series[Head(keys)],
                   LAMBDA point : PointMatches(point, filters))
         \o CollectRecords(Tail(keys), filters)

\* list.sort(key=timestamp): stable, so equal timestamps keep their order
RECURSIVE SortByTimestamp(_)
SortByTimestamp(records) ==
    IF records = <<>> THEN <<>>
    ELSE LET sorted == SortByTimestamp(SubSeq(records, 1, Len(records) - 1))
             last == records[Len(records)]
             k == Cardinality({i \in 1..Len(sorted) :
                                  sorted[i].timestamp <= last.timestamp})
         IN SubSeq(sorted, 1, k) \o <<last>> \o SubSeq(sorted, k + 1, Len(sorted))

\* (mutant) the limit keeps the oldest records
ApplyLimit_Head(records, limit) ==
    IF limit > 0 /\ Len(records) > limit THEN SubSeq(records, 1, limit)
    ELSE records

\* integrity_series, lines 456-457: records[-limit:]; limit 0 stands for None
ApplyLimit(records, limit) ==
    IF limit > 0 /\ Len(records) > limit THEN Suffix(records, limit)
    ELSE records

\* MetricStore.integrity_series(**filters, limit=limit).  The fields the
\* copy of a point is given (key, exchange, ..., stream) are the point's own.
IntegritySeriesQuery(filters, limit) ==
    ApplyLimit(
        SortByTimestamp(
            CollectRecords(InsertionOrder("integrity", Len(appended)), filters)),
        limit)

\* latest_xdp_entry, lines 468-475: the loop over the series, each offering
\* its last point; latest is <<>> for None, or <<(key, point)>>
RECURSIVE LatestOver(_, _)
LatestOver(keys, latest) ==
    IF keys = <<>> THEN latest
    ELSE LET series == xdp_series[Head(keys)]
             candidate == series[Len(series)]
         IN IF series = <<>> THEN LatestOver(Tail(keys), latest)
            ELSE IF latest = <<>>
                    \/ candidate.timestamp >= latest[1].entry.timestamp
            THEN LatestOver(Tail(keys),
                            <<[key |-> Head(keys), entry |-> candidate]>>)
            ELSE LatestOver(Tail(keys), latest)

\* MetricStore.latest_xdp_entry(): <<>> for None, or <<{"key", "entry"}>>
LatestXdpEntry == LatestOver(InsertionOrder("xdp", Len(appended)), <<>>)

\* (mutant) the snapshot hands out the store's own container
ListOf_Alias(container, ref) == [shared |-> TRUE, ref |-> ref]

\* list(container): a new list with the container's items.  A value that is
\* a reference to a container of the store (`shared`) reads as whatever the
\* container holds when it is read.
ListOf(container, ref) == [shared |-> FALSE, items |-> container]

\* the items a list value holds now
ReadList(value) ==
    IF ~value.shared THEN value.items
    ELSE IF value.ref.scope = "xdp" THEN xdp_series[value.ref.key]
    ELSE IF value.ref.scope = "integrity" THEN integrity_series[value.ref.key]
    ELSE alerts

\* MetricStore.snapshot()
StoreSnapshot ==
    [xdp |-> [key \in DOMAIN xdp_series |->
                 ListOf(xdp_series[key], [scope |-> "xdp", key |-> key])],
     integrity |-> [key \in DOMAIN integrity_series |->
                 ListOf(integrity_series[key],
                        [scope |-> "integrity", key |-> key])],
     alerts |-> ListOf(alerts, [scope |-> "alerts", key |-> ""])]

(***************************************************************************)
(* TradeBatchAggregator (app.py).  add() runs under self._lock and is one   *)
(* step.  _flush runs on the timer's own thread in two steps: the pop under *)
(* the lock, then the processor call outside it.  The clock counts ticks of *)
(* 50 ms.                                                                   *)
(***************************************************************************)
DelayTicks == 2       \* delay_seconds=0.1

StreamCfg(nm, tp, host, iface) ==
    [name |-> nm, topic |-> tp, hostname |-> host, interface |-> iface]

TradePayload(ex, ts, st) ==
    [exchange |-> ex, type |-> "Trade", timestamp |-> ts, status |-> st,
     symbol |-> "btc", minute |-> None, stage |-> "", results |-> <<>>,
     hostname |-> "", interface |-> ""]

TradeStream == StreamCfg("s1", "integrity_trade", "h1", None)

\* (topic, payload) of the trade events handed to add(); the first two share
\* a batch key, the third falls into the next minute
TradeInputs ==
    { <<"integrity_trade", TradePayload("ex", 30, "ok")>>,
      <<"", TradePayload("EX", 45, "fail")>>,
      <<"integrity_trade", TradePayload("ex", 90, "ok")>> }

\* the trade events of the runs with drain(): one for each of two batch keys
DrainTradeInputs == {input \in TradeInputs : input[1] # ""}

\* _coerce_trade_timestamp: seconds; 0 stands for its None
CoerceTradeTimestamp(value) ==
    IF value <= 0 THEN 0
    ELSE IF value \div 1000000 >= 1000000 THEN value \div 1000
    ELSE value

\* _extract_trade_timestamp: the payloads of the model carry "timestamp" only
ExtractTradeTimestamp(payload) == CoerceTradeTimestamp(payload.timestamp)

MakeKey(stream_cfg, topic, payload, defaults) ==
    LET host == IF defaults.hostname \notin {None, ""}
                THEN defaults.hostname ELSE ""
        interface == IF defaults.interface \notin {None, ""}
                     THEN defaults.interface ELSE ""
        exchange == Lower(payload.exchange)
        minute_part == IF payload.minute # None THEN payload.minute ELSE ""
        ts == ExtractTradeTimestamp(payload)
        bucket == IF ts > 0 THEN ToString(ts \div 60) ELSE ""
        topic_part == IF topic # "" THEN topic ELSE stream_cfg.topic
        event_type == Lower(payload.type)
    IN Join(<<stream_cfg.name, topic_part, host, interface, exchange,
              minute_part, bucket, event_type>>)

\* merged_defaults: the batch's defaults, overwritten by the non-empty new ones
MergeDefaults(old, new) ==
    [k \in DOMAIN old \cup DOMAIN new |->
        IF k \in DOMAIN new /\ new[k] \notin {None, ""} THEN new[k]
        ELSE IF k \in DOMAIN old THEN old[k] ELSE new[k]]

\* (mutant) the new payload replaces the list
JoinBatch_Replace(payloads, payload_copy) == <<payload_copy>>

\* (mutant) the new payload goes to the front of the list
JoinBatch_Prepend(payloads, payload_copy) == <<payload_copy>> \o payloads

\* the payload list of a pending batch after one more add
JoinBatch(payloads, payload_copy) == Append(payloads, payload_copy)

\* (mutant) get instead of pop: the batch stays pending
FlushTake_Get(batch_key) == batches

\* what _flush leaves in self._batches: batches.pop(batch_key, None)
FlushTake(batch_key) == Pop(batches, batch_key)

\* when a timer started at `started` may run its function
TimerDue(started) == started + DelayTicks

\* (mutant) a debounce: the add that joins a batch starts the delay again
JoinTimer_Rearm(timer) == [timers EXCEPT ![timer].started = now]

\* the timers after an add that joins a pending batch (lines 134-141): the
\* branch appends and merges, and does not touch batch["timer"]
JoinTimer(timer) == timers

\* TradeBatchAggregator.add
AggAdd(stream_cfg, topic, payload, defaults) ==
    LET key == MakeKey(stream_cfg, topic, payload, defaults)
        n == Len(accepted) + 1
        payload_copy == payload @@ [n |-> n]
    IN IF key \notin DOMAIN batches
       THEN LET timer == Cardinality(DOMAIN timers) + 1
            IN /\ batches' = Put(batches, key,
                      [stream_cfg |-> stream_cfg, topic |-> topic,
                       payloads |-> <<payload_copy>>, defaults |-> defaults,
                       timer |-> timer])
               /\ timers' = Put(timers, timer,
                      [key |-> key, started |-> now, state |-> "waiting"])
               /\ accepted' = Append(accepted,
                      [n |-> n, key |-> key, timer |-> timer, at |-> now])
               /\ UNCHANGED <<flushes, processed, now>>
       ELSE LET batch == batches[key]
            IN /\ batches' = Put(batches, key,
                      [batch EXCEPT
                          !.payloads = JoinBatch(batch.payloads, payload_copy),
                          !.topic = topic,
                          !.defaults = MergeDefaults(batch.defaults, defaults)])
               /\ accepted' = Append(accepted,
                      [n |-> n, key |-> key, timer |-> batch.timer, at |-> now])
               /\ timers' = JoinTimer(batch.timer)
               /\ UNCHANGED <<flushes, processed, now>>

\* threading.Timer: after the delay the timer thread calls _flush(key)
TimerFire(timer) ==
    /\ timer \in DOMAIN timers
    /\ timers[timer].state = "waiting"
    /\ now >= TimerDue(timers[timer].started)
    /\ timers' = [timers EXCEPT ![timer].state = "running"]
    /\ flushes' = Put(flushes, timer, [pc |-> "pop", key |-> timers[timer].key])
    /\ UNCHANGED <<batches, processed, accepted, now>>

\* _flush, lines 144-150: pop the batch under the lock
FlushPop(timer) ==
    /\ timer \in DOMAIN flushes
    /\ flushes[timer].pc = "pop"
    /\ LET batch_key == flushes[timer].key
       IN IF batch_key \in DOMAIN batches
          THEN /\ batches' = FlushTake(batch_key)
               /\ flushes' = Put(flushes, timer,
                      [pc |-> "process", key |-> batch_key,
                       batch |-> batches[batch_key]])
               /\ UNCHANGED timers
          ELSE /\ flushes' = Pop(flushes, timer)
               /\ timers' = [timers EXCEPT ![timer].state = "finished"]
               /\ UNCHANGED batches
    /\ UNCHANGED <<processed, accepted, now>>

\* (mutant) a processor that raised gets its batch back into the pending map
FlushProcessWith_Requeue(timer, raised) ==
    /\ timer \in DOMAIN flushes
    /\ flushes[timer].pc = "process"
    /\ processed' = Append(processed,
           [key |-> flushes[timer].key,
            batch |-> flushes[timer].batch.timer,
            topic |-> flushes[timer].batch.topic,
            payloads |-> flushes[timer].batch.payloads,
            defaults |-> flushes[timer].batch.defaults,
            at |-> now, by |-> timer, raised |-> raised])
    /\ flushes' = Pop(flushes, timer)
    /\ timers' = [timers EXCEPT ![timer].state = "finished"]
    /\ batches' = IF raised /\ flushes[timer].key \notin DOMAIN batches
                  THEN Put(batches, flushes[timer].key, flushes[timer].batch)
                  ELSE batches
    /\ UNCHANGED <<accepted, now>>

\* _flush, lines 151-159: the processor call; what it raises is logged
FlushProcessWith(timer, raised) ==
    /\ timer \in DOMAIN flushes
    /\ flushes[timer].pc = "process"
    /\ processed' = Append(processed,
           [key |-> flushes[timer].key,
            batch |-> flushes[timer].batch.timer,
            topic |-> flushes[timer].batch.topic,
            payloads |-> flushes[timer].batch.payloads,
            defaults |-> flushes[timer].batch.defaults,
            at |-> now, by |-> timer, raised |-> raised])
    /\ flushes' = Pop(flushes, timer)
    /\ timers' = [timers EXCEPT ![timer].state = "finished"]
    /\ UNCHANGED <<batches, accepted, now>>

\* _flush with a processor that may return or raise
FlushProcess(timer) == \E raised \in BOOLEAN : FlushProcessWith(timer, raised)

\* time passes
Tick ==
    /\ now < MaxTime
    /\ now' = now + 1
    /\ UNCHANGED <<batches, timers, flushes, processed, accepted>>

\* the caller recorded for a processor invocation made by drain()
DrainCaller == 0

\* dict.popitem(): the key inserted last, which is the batch created last
PopItemKey ==
    CHOOSE key \in DOMAIN batches :
        \A other \in DOMAIN batches : batches[other].timer <= batches[key].timer

\* (mutant) drain looks at the batch and leaves it in the map
DrainTake_Peek(batch_key) == batches

\* what drain leaves in self._batches: the popped item is gone
DrainTake(batch_key) == Pop(batches, batch_key)

\* trade_batch_aggregator.drain() is called
DrainCall ==
    /\ drain.pc = "idle"
    /\ drain' = [pc |-> "pop",
                 pending |-> {batches[k].timer : k \in DOMAIN batches},
                 accepted |-> Len(accepted)]
    /\ UNCHANGED aggVars

\* drain, lines 192-195: under the lock, return or pop the last item
DrainPop ==
    /\ drain.pc = "pop"
    /\ IF DOMAIN batches = {}
       THEN /\ drain' = [drain EXCEPT !.pc = "returned"]
            /\ UNCHANGED batches
       ELSE /\ drain' = [pc |-> "cancel", pending |-> drain.pending,
                         accepted |-> drain.accepted,
                         key |-> PopItemKey, batch |-> batches[PopItemKey]]
            /\ batches' = DrainTake(PopItemKey)
    /\ UNCHANGED <<timers, flushes, processed, accepted, now>>

\* drain, lines 196-198: timer.cancel() stops a timer that has not fired yet
DrainCancel ==
    /\ drain.pc = "cancel"
    /\ timers' = IF timers[drain.batch.timer].state = "waiting"
                 THEN [timers EXCEPT ![drain.batch.timer].state = "cancelled"]
                 ELSE timers
    /\ drain' = [drain EXCEPT !.pc = "process"]
    /\ UNCHANGED <<batches, flushes, processed, accepted, now>>

\* drain, lines 199-210: the processor call; what it raises is logged
DrainProcessWith(raised) ==
    /\ drain.pc = "process"
    /\ processed' = Append(processed,
           [key |-> drain.key,
            batch |-> drain.batch.timer,
            topic |-> drain.batch.topic,
            payloads |-> drain.batch.payloads,
            defaults |-> drain.batch.defaults,
            at |-> now, by |-> DrainCaller, raised |-> raised])
    /\ drain' = [pc |-> "pop", pending |-> drain.pending,
                 accepted |-> drain.accepted]
    /\ UNCHANGED <<batches, timers, flushes, accepted, now>>

\* drain with a processor that may return or raise
DrainProcess == \E raised \in BOOLEAN : DrainProcessWith(raised)

AggInit ==
    /\ batches = EmptyDict
    /\ timers = EmptyDict
    /\ flushes = EmptyDict
    /\ processed = <<>>
    /\ accepted = <<>>
    /\ now = 0

(***************************************************************************)
(* Initial states of the other components (refined below).                  *)
(***************************************************************************)
(***************************************************************************)
(* ZMQSubscriber (subscriber.py).  One worker thread runs run(); stop() is  *)
(* called from the thread that shuts the application down.                  *)
(***************************************************************************)
\* what recv_multipart may return: the number of parts, whether the data
\* part is valid UTF-8, and what JSON text it holds
Frames(parts, utf8, json) == [parts |-> parts, utf8 |-> utf8, json |-> json]

FrameKinds ==
    { Frames(2, TRUE, "object"), Frames(1, TRUE, "object"),
      Frames(2, TRUE, "malformed"), Frames(2, TRUE, "array"),
      Frames(2, TRUE, "null"), Frames(1, FALSE, "object") }

\* _decode_frames: (topic, payload), or the exception that leaves it.  Only
\* json.JSONDecodeError is caught; bytes.decode("utf-8") raises
\* UnicodeDecodeError, which is not one.
DecodeFrames(frames) ==
    LET topic == IF frames.parts = 1 THEN "" ELSE "topic"
    IN IF ~frames.utf8
       THEN [raised |-> "UnicodeDecodeError", topic |-> topic, payload |-> None]
       ELSE IF frames.json = "malformed"
       THEN [raised |-> None, topic |-> topic, payload |-> None]
       ELSE IF frames.json = "null"
       THEN [raised |-> None, topic |-> topic, payload |-> None]
       ELSE IF frames.json = "object"
       THEN [raised |-> None, topic |-> topic, payload |-> "dict"]
       ELSE [raised |-> None, topic |-> topic, payload |-> "list"]

\* how a handler call may end: _handle_xdp and _handle_integrity start with
\* payload.get(...), which raises AttributeError on anything but a dict
HandlerOutcomes(payload) ==
    IF payload = "dict"
    THEN {"returned", "raised before the store", "raised after the store"}
    ELSE {"raised before the store"}

\* (mutant) the handler is called again on the same message after it raised
AfterHandlerRaised_Retry == "handle"

\* (mutant) the handler's exception leaves the loop
AfterHandlerRaised_Exit == "exited"

\* where run() goes when the handler call raised (the inner except clause)
AfterHandlerRaised == "loop"

\* where run() goes after _decode_frames, which is called outside the inner try
AfterDecode(decoded) ==
    IF decoded.raised # None THEN "exited"
    ELSE IF decoded.payload = None THEN "loop"
    ELSE "handle"

\* (mutant) the receive is tried again after zmq.Error
AfterRecvError_Retry == "recv"

\* (mutant) a receive error ends the worker whatever the stop event is
AfterRecvError_Exit == "exited"

\* where run() goes when recv_multipart raised zmq.Error: break if the stop
\* event is set, else continue
AfterRecvError == IF stop_event THEN "exited" ELSE "loop"

\* while not self._stop_event.is_set()
RunLoopTest ==
    /\ w_pc = "loop"
    /\ IF stop_event
       THEN w_pc' = "exited" /\ socket_open' = FALSE
       ELSE w_pc' = "poll" /\ UNCHANGED socket_open
    /\ UNCHANGED <<stop_event, w_frames, w_payload, received, handled, stored>>

\* events = dict(poller.poll(1000)); a closed socket makes poll raise
RunPoll ==
    /\ w_pc = "poll"
    /\ IF ~socket_open
       THEN w_pc' = "exited"
       ELSE \/ w_pc' = "loop"
            \/ Len(received) < MaxFrames /\ w_pc' = "recv"
    /\ UNCHANGED <<stop_event, socket_open, w_frames, w_payload, received,
                   handled, stored>>

\* frames = socket.recv_multipart(), zmq.Again, or zmq.Error
RunRecv ==
    /\ w_pc = "recv"
    /\ \/ /\ socket_open
          /\ \E frames \in FrameKinds :
                 /\ w_frames' = frames
                 /\ received' = Append(received, frames)
          /\ w_pc' = "decode"
       \/ /\ socket_open
          /\ w_pc' = "loop"
          /\ UNCHANGED <<w_frames, received>>
       \/ /\ w_pc' = "recv_error"
          /\ UNCHANGED <<w_frames, received>>
    /\ UNCHANGED <<stop_event, socket_open, w_payload, handled, stored>>

\* except zmq.Error, lines 66-70: the stop event is read; break, or log and
\* continue
RunRecvError ==
    /\ w_pc = "recv_error"
    /\ w_pc' = AfterRecvError
    /\ socket_open' = IF w_pc' = "exited" THEN FALSE ELSE socket_open
    /\ UNCHANGED <<stop_event, w_frames, w_payload, received, handled, stored>>

\* topic, payload = self._decode_frames(frames); if payload is None: continue
RunDecode ==
    /\ w_pc = "decode"
    /\ LET decoded == DecodeFrames(w_frames)
       IN /\ w_pc' = AfterDecode(decoded)
          /\ w_payload' = decoded.payload
    /\ socket_open' = IF w_pc' = "exited" THEN FALSE ELSE socket_open
    /\ UNCHANGED <<stop_event, w_frames, received, handled, stored>>

\* self._handler(self._cfg, topic, payload) inside try / except Exception
RunHandle ==
    /\ w_pc = "handle"
    /\ \E outcome \in HandlerOutcomes(w_payload) :
           /\ handled' = Append(handled,
                                [frame |-> Len(received), outcome |-> outcome])
           /\ stored' = IF outcome \in {"returned", "raised after the store"}
                        THEN Append(stored, Len(received))
                        ELSE stored
           /\ w_pc' = IF outcome = "returned" THEN "loop" ELSE AfterHandlerRaised
    /\ socket_open' = IF w_pc' = "exited" THEN FALSE ELSE socket_open
    /\ UNCHANGED <<stop_event, w_frames, w_payload, received>>

\* ZMQSubscriber.stop
Stop ==
    /\ ~stop_event
    /\ stop_event' = TRUE
    /\ socket_open' = FALSE
    /\ UNCHANGED <<w_pc, w_frames, w_payload, received, handled, stored>>

WorkerInit ==
    /\ w_pc = "loop"
    /\ stop_event = FALSE
    /\ socket_open = TRUE
    /\ w_frames = Frames(0, TRUE, "null")
    /\ w_payload = None
    /\ received = <<>>
    /\ handled = <<>>
    /\ stored = <<>>

(***************************************************************************)
(* WebsocketHub and the /ws/metrics endpoint (app.py).  Everything here     *)
(* runs on the event loop: a coroutine runs alone from one await that       *)
(* suspends to the next.  self._lock is never held across an await, so      *)
(* taking it never suspends.  ws.accept() and ws.send_json() suspend; what  *)
(* a send delivers is in the client's inbox when the send returns.          *)
(***************************************************************************)
Websockets == {"ws1", "ws2"}

Snapshot == [type |-> "snapshot", n |-> 0]
Update(n) == [type |-> "update", n |-> n]

\* [c for c in connections if c not in stale]
RECURSIVE Without(_, _)
Without(conns, stale) ==
    IF conns = <<>> THEN <<>>
    ELSE (IF \E i \in 1..Len(stale) : stale[i] = Head(conns)
          THEN <<>> ELSE <<Head(conns)>>)
         \o Without(Tail(conns), stale)

\* list.remove(ws), ValueError swallowed
RemoveFirst(conns, ws) == Without(conns, <<ws>>)

InConnections(ws) == \E i \in 1..Len(connections) : connections[i] = ws

\* a send to the websocket can succeed only while its endpoint is alive
CanDeliver(ws) == ws_pc[ws] \in {"sending_snapshot", "open"}

\* metrics_ws: store.snapshot() is taken and hub.add awaits ws.accept()
WsConnect(ws) ==
    /\ ws_pc[ws] = "new"
    /\ ws_pc' = [ws_pc EXCEPT ![ws] = "accepting"]
    /\ UNCHANGED <<connections, inbox, passes, was_registered>>

\* (mutant) the snapshot is sent first, the registration is left for later
HubAddRegister_SnapshotFirst(ws) ==
    /\ inbox' = [inbox EXCEPT ![ws] = Append(@, Snapshot)]
    /\ UNCHANGED <<connections, was_registered>>

\* hub.add, lines 43-44: what it does once accept() has returned
HubAddRegister(ws) ==
    /\ connections' = Append(connections, ws)
    /\ was_registered' = was_registered \cup {ws}
    /\ UNCHANGED inbox

\* hub.add after ws.accept(): accept returned, or raised (metrics_ws ends)
WsRegister(ws) ==
    /\ ws_pc[ws] = "accepting"
    /\ \/ /\ HubAddRegister(ws)
          /\ ws_pc' = [ws_pc EXCEPT ![ws] = "sending_snapshot"]
       \/ /\ ws_pc' = [ws_pc EXCEPT ![ws] = "closed"]
          /\ UNCHANGED <<connections, inbox, was_registered>>
    /\ UNCHANGED passes

\* hub.add, line 45: the snapshot send returns, or raises out of metrics_ws
\* (hub.add is called outside its try, so hub.remove is not reached)
WsSnapshot(ws) ==
    /\ ws_pc[ws] = "sending_snapshot"
    /\ \/ /\ inbox' = [inbox EXCEPT ![ws] = Append(@, Snapshot)]
          /\ ws_pc' = [ws_pc EXCEPT ![ws] = "open"]
       \/ /\ ws_pc' = [ws_pc EXCEPT ![ws] = "closed"]
          /\ UNCHANGED inbox
    /\ UNCHANGED <<connections, passes, was_registered>>

\* metrics_ws: receive_text() raises and hub.remove(ws) runs
WsDisconnect(ws) ==
    /\ ws_pc[ws] = "open"
    /\ connections' = RemoveFirst(connections, ws)
    /\ ws_pc' = [ws_pc EXCEPT ![ws] = "closed"]
    /\ UNCHANGED <<inbox, passes, was_registered>>

\* (mutant) a send that raises ends the pass
NextTarget_AbortOnError(pass, ok) ==
    IF ok THEN pass.idx + 1 ELSE Len(pass.targets) + 1

\* the index of the next target after a send returned (ok) or raised
NextTarget(pass, ok) == pass.idx + 1

\* (mutant) a stale connection is removed as soon as its send raised
ConnectionsAfterSend_AtOnce(stale, finished) == Without(connections, stale)

\* self._connections after a send of the pass, `finished` when it was the last
ConnectionsAfterSend(stale, finished) ==
    IF finished THEN Without(connections, stale) ELSE connections

\* hub.broadcast, lines 55-56: the coroutine starts and copies the registry
BroadcastStart ==
    /\ Cardinality(DOMAIN passes) < MaxMessages
    /\ passes' = Put(passes, Cardinality(DOMAIN passes) + 1,
           [targets |-> connections, idx |-> 1, stale |-> <<>>,
            tried |-> <<>>,
            pc |-> IF connections = <<>> THEN "done" ELSE "sending"])
    /\ UNCHANGED <<connections, ws_pc, inbox, was_registered>>

\* (mutant) the pass reads the live registry instead of its copy
SendTarget_Live(pass) ==
    IF pass.idx <= Len(connections) THEN connections[pass.idx]
    ELSE pass.targets[pass.idx]

\* for conn in targets: the sink of the pass's next send
SendTarget(pass) == pass.targets[pass.idx]

\* hub.broadcast, lines 59-71: one send returns or raises; after the last
\* one the stale connections are removed
BroadcastSend(n) ==
    /\ n \in DOMAIN passes
    /\ passes[n].pc = "sending"
    /\ LET pass == passes[n]
           conn == SendTarget(pass)
       IN \E ok \in BOOLEAN :
           /\ ok => CanDeliver(conn)
           /\ LET stale == IF ok THEN pass.stale ELSE Append(pass.stale, conn)
                  idx == NextTarget(pass, ok)
                  finished == idx > Len(pass.targets)
              IN /\ inbox' = IF ok
                             THEN [inbox EXCEPT ![conn] = Append(@, Update(n))]
                             ELSE inbox
                 /\ passes' = [passes EXCEPT ![n] =
                        [pass EXCEPT !.idx = idx, !.stale = stale,
                                     !.tried = Append(@, [ws |-> conn, ok |-> ok]),
                                     !.pc = IF finished THEN "done" ELSE "sending"]]
                 /\ connections' = ConnectionsAfterSend(stale, finished)
    /\ UNCHANGED <<ws_pc, was_registered>>

HubInit ==
    /\ connections = <<>>
    /\ ws_pc = [ws \in Websockets |-> "new"]
    /\ inbox = [ws \in Websockets |-> <<>>]
    /\ passes = EmptyDict
    /\ was_registered = {}

(***************************************************************************)
(* Initial values of the remaining state.                                   *)
(***************************************************************************)
Threads == {"t1", "t2", "r"}

\* no drain() call yet
DrainInit == drain = [pc |-> "idle"]

\* the store's lock is free and no thread is inside a call
ThreadsInit ==
    /\ lock = None
    /\ th = [t \in Threads |-> [pc |-> "idle"]]
    /\ snaps = <<>>
    /\ returned = {}

Subscribers == {"xdp", "integrity"}

\* after _startup: the loop is set and the subscriber threads are running
AppInit ==
    /\ loop = TRUE
    /\ scheduled = <<>>
    /\ subs = [s \in Subscribers |->
                  [pc |-> "idle", stop_event |-> FALSE, taken |-> 0]]
    /\ shutdown_pc = [at |-> "running", i |-> 1]

QueryInit ==
    /\ answer = [op |-> "none"]
    /\ held = [op |-> "none"]

RestInit == DrainInit /\ ThreadsInit /\ AppInit /\ QueryInit

(***************************************************************************)
(* MetricStore under concurrent threads (store.py).  Two subscriber threads *)
(* call add_xdp_payload / add_integrity_payload and a reader calls          *)
(* snapshot().  Here the body of each `with self._lock:` block is taken     *)
(* statement by statement, so that only the lock keeps the threads apart.   *)
(***************************************************************************)
Writers == {"t1", "t2"}
Reader == "r"

\* (op, source, payload, defaults) of the add_* calls of the threads
ThreadInputs ==
    { <<"xdp", "x1", XdpPayload("h1", "eth0", 1000, 100, 200), NoDefaults>>,
      <<"integrity", "s1",
        IntegrityPayload("ex", "kline", "", "ok", <<>>, 1000), NoDefaults>>,
      <<"integrity", "s1",
        IntegrityPayload("EX", "kline", "", "FAIL", <<>>, 1001), NoDefaults>> }

\* (mutant) the lock does not keep anyone out
CanAcquire_NoLock == TRUE

\* threading.Lock: acquire succeeds only while nobody holds it
CanAcquire == lock = None

\* (mutant) the lock is given up before the alert log is touched
LockAfterTrim_Released(t) == None

\* who holds the lock between the trimming and the alert append
LockAfterTrim(t) == t

\* the add_* calls made so far
ThreadCalls ==
    Cardinality(returned) + Cardinality({t \in Writers : th[t].pc # "idle"})

\* a thread calls add_xdp_payload or add_integrity_payload: the entry is
\* built before the lock is taken
ThCallAdd(t) ==
    /\ t \in Writers
    /\ th[t].pc = "idle"
    /\ ThreadCalls < MaxThreadCalls
    /\ \E input \in ThreadInputs :
           th' = [th EXCEPT ![t] =
                     [pc |-> "lock", op |-> input[1], source |-> input[2],
                      payload |-> input[3], defaults |-> input[4]]]
    /\ UNCHANGED <<lock, snaps, returned, storeVars>>

\* with self._lock: the thread gets the lock
ThAcquire(t) ==
    /\ th[t].pc = "lock"
    /\ CanAcquire
    /\ lock' = t
    /\ th' = [th EXCEPT ![t].pc = IF t = Reader THEN "copy" ELSE "append"]
    /\ UNCHANGED <<snaps, returned, storeVars>>

\* add_xdp_payload, lines 126-129: series.append(entry) and the stream count
ThAppendXdp(t) ==
    /\ th[t].pc = "append"
    /\ th[t].op = "xdp"
    /\ LET key == XdpKey(th[t].payload)
           entry == XdpEntry(th[t].source, th[t].payload, Len(appended) + 1)
       IN /\ xdp_series' = Put(xdp_series, key,
                               Append(Get(xdp_series, key, <<>>), entry))
          /\ xdp_stream_counts' =
                 Put(xdp_stream_counts, th[t].source,
                     Get(xdp_stream_counts, th[t].source, 0) + 1)
          /\ appended' = Append(appended,
                                [scope |-> "xdp", key |-> key, entry |-> entry])
          /\ th' = [th EXCEPT ![t] =
                       [pc |-> "trim", op |-> "xdp", key |-> key,
                        n |-> entry.n]]
    /\ UNCHANGED <<lock, snaps, returned, xdp_points, integrity_points,
                   integrity_retention, integrity_series, alerts>>

\* add_xdp_payload, lines 130-139: the popleft loop; the block ends
ThTrimXdp(t) ==
    /\ th[t].pc = "trim"
    /\ th[t].op = "xdp"
    /\ LET series == xdp_series[th[t].key]
       IN /\ xdp_series' = Put(xdp_series, th[t].key,
                               TrimSeries(series, xdp_points))
          /\ xdp_stream_counts' =
                 ReleaseCounts(xdp_stream_counts, Evicted(series, xdp_points))
    /\ th' = [th EXCEPT ![t].pc = "release"]
    /\ UNCHANGED <<lock, snaps, returned, xdp_points, integrity_points,
                   integrity_retention, integrity_series, alerts, appended>>

\* add_integrity_payload, lines 279-293: the key and series.append(entry)
ThAppendIntegrity(t) ==
    /\ th[t].pc = "append"
    /\ th[t].op = "integrity"
    /\ LET entry == IntegrityEntry(th[t].source, th[t].payload,
                                   th[t].defaults, Len(appended) + 1)
           key == entry.key
       IN /\ integrity_series' =
                 Put(integrity_series, key,
                     Append(Get(integrity_series, key, <<>>), entry))
          /\ appended' = Append(appended,
                 [scope |-> "integrity", key |-> key, entry |-> entry])
          /\ th' = [th EXCEPT ![t] =
                       [pc |-> "trim", op |-> "integrity", key |-> key,
                        n |-> entry.n, entry |-> entry]]
    /\ UNCHANGED <<lock, snaps, returned, xdp_points, integrity_points,
                   integrity_retention, xdp_series, xdp_stream_counts, alerts>>

\* add_integrity_payload, lines 294-296: the popleft loop
ThTrimIntegrity(t) ==
    /\ th[t].pc = "trim"
    /\ th[t].op = "integrity"
    /\ integrity_series' =
           Put(integrity_series, th[t].key,
               TrimSeries(integrity_series[th[t].key],
                          IntegrityRetentionLimit(th[t].entry.stream)))
    /\ lock' = LockAfterTrim(t)
    /\ th' = [th EXCEPT ![t].pc = "alert"]
    /\ UNCHANGED <<snaps, returned, xdp_points, integrity_points,
                   integrity_retention, xdp_series, xdp_stream_counts, alerts,
                   appended>>

\* add_integrity_payload, lines 297-298: the alert log
ThAlert(t) ==
    /\ th[t].pc = "alert"
    /\ alerts' = IF IsAlert(th[t].entry)
                 THEN AppendMaxLen(alerts, th[t].entry, AlertBound)
                 ELSE alerts
    /\ th' = [th EXCEPT ![t].pc = "release"]
    /\ UNCHANGED <<lock, snaps, returned, xdp_points, integrity_points,
                   integrity_retention, xdp_series, integrity_series,
                   xdp_stream_counts, appended>>

\* the with block ends and add_* returns
ThRelease(t) ==
    /\ th[t].pc = "release"
    /\ lock' = None
    /\ returned' = returned \cup {th[t].n}
    /\ th' = [th EXCEPT ![t] = [pc |-> "idle"]]
    /\ UNCHANGED <<snaps, storeVars>>

\* the reader calls snapshot()
SnapCall ==
    /\ th[Reader].pc = "idle"
    /\ Len(snaps) < MaxSnaps
    /\ th' = [th EXCEPT ![Reader] =
                 [pc |-> "lock", op |-> "snapshot", after |-> returned,
                  busy |-> lock]]
    /\ UNCHANGED <<lock, snaps, returned, storeVars>>

\* snapshot, lines 359-365: the copies are made and the block ends
SnapCopy ==
    /\ th[Reader].pc = "copy"
    /\ snaps' = Append(snaps,
                       [xdp |-> xdp_series, integrity |-> integrity_series,
                        alerts |-> alerts, after |-> th[Reader].after,
                        busy |-> th[Reader].busy, upto |-> Len(appended)])
    /\ lock' = None
    /\ th' = [th EXCEPT ![Reader] = [pc |-> "idle"]]
    /\ UNCHANGED <<returned, storeVars>>

(***************************************************************************)
(* The application (app.py create_app): the handlers the subscriber threads *)
(* call, the trade batch processor and _shutdown.  A subscriber thread is   *)
(* seen here from outside: it takes a decoded message while its stop flag   *)
(* is unset, runs its handler, and exits when it finds the flag set.        *)
(***************************************************************************)
\* a, b, c = value: ValueError unless value has exactly `count` items
Unpacks(value, count) == Len(value) = count

\* add_xdp_payload ends with `return key, entry`
AddXdpReturn(key, entry) == <<key, entry>>

\* add_integrity_payload ends with `return updates`, the list holding the
\* one tuple (key, entry, alerted)
AddIntegrityReturn(key, entry) == << <<key, entry, ~entry.is_ok>> >>

\* the message a handler builds for the hub
UpdateMessage(scope, key, entry, topic) ==
    [type |-> "update", scope |-> scope, key |-> key, n |-> entry.n,
     point |-> entry, topic |-> topic]

\* (mutant) the loop reference is not looked at
ScheduledAfter_NoCheck(message) == Append(scheduled, message)

\* _schedule, lines 240-243: what has been handed to the loop after the
\* call; nothing is handed over once app.state.loop is None
ScheduledAfter(message) ==
    IF loop THEN Append(scheduled, message) ELSE scheduled

\* (mutant) hub.broadcast runs in place, on the thread that calls _schedule
PassesAfterSchedule_InPlace(message) ==
    Put(passes, Cardinality(DOMAIN passes) + 1,
        [targets |-> connections, idx |-> 1, stale |-> <<>>, tried |-> <<>>,
         pc |-> IF connections = <<>> THEN "done" ELSE "sending"])

\* _schedule, line 243: hub.broadcast(message) makes a coroutine object and
\* run_coroutine_threadsafe queues it on the loop; no line of broadcast
\* runs on the calling thread, so no pass starts here
PassesAfterSchedule(message) == passes

\* _schedule(message)
Schedule(message) ==
    /\ scheduled' = ScheduledAfter(message)
    /\ passes' = PassesAfterSchedule(message)

\* what a step that may call _schedule leaves alone
FrameOfSchedule ==
    UNCHANGED <<workerVars, connections, ws_pc, inbox, was_registered,
                threadVars, queryVars>>

XdpStream == StreamCfg("x1", "xdp", None, None)

\* (topic, payload) of the messages of the xdp stream
AppXdpInputs == {<<"xdp", input[2]>> : input \in {x \in XdpInputs : x[1] = "x1"}}

\* (topic, payload) of the messages of the integrity stream: trade events
\* and others
AppIntegrityInputs ==
    DrainTradeInputs
    \cup {<<"integrity", input[2]>> :
             input \in {x \in IntegrityInputs :
                           x[1] = "s1" /\ x[2].results = <<>>}}

\* the fallback tags _handle_integrity takes from the stream
Fallback(stream_cfg) ==
    [hostname |-> stream_cfg.hostname, interface |-> stream_cfg.interface]

\* max(timestamps) of the items that carry one, 0 if none does
RECURSIVE MaxTimestamp(_)
MaxTimestamp(payloads) ==
    IF payloads = <<>> THEN 0
    ELSE Max(ExtractTradeTimestamp(Head(payloads)), MaxTimestamp(Tail(payloads)))

\* the first non-empty exchange of the batch
RECURSIVE FirstExchange(_)
FirstExchange(payloads) ==
    IF payloads = <<>> THEN ""
    ELSE IF Head(payloads).exchange # "" THEN Head(payloads).exchange
    ELSE FirstExchange(Tail(payloads))

\* (mutant) only the last item decides
BatchFailures_LastOnly(payloads) ==
    SelectSeq(SubSeq(payloads, Len(payloads), Len(payloads)),
              LAMBDA raw : Lower(raw.status) # "ok")

\* _process_trade_batch, lines 272 and 289: the items whose lower-cased
\* status is not "ok"
BatchFailures(payloads) ==
    SelectSeq(payloads, LAMBDA raw : Lower(raw.status) # "ok")

\* _process_trade_batch, lines 254-317: the aggregate payload of a batch
AggregatePayload(payloads) ==
    LET failures == BatchFailures(payloads)
        timestamp == IF MaxTimestamp(payloads) > 0
                     THEN MaxTimestamp(payloads) ELSE now
    IN [exchange |-> FirstExchange(payloads), type |-> "trade", stage |-> "",
        status |-> IF failures = <<>> THEN "ok" ELSE "error",
        results |-> <<>>, timestamp |-> timestamp, symbol |-> "__batch__",
        hostname |-> "", interface |-> "",
        trade_batch |-> TRUE,
        trade_batch_size |-> Len(payloads),
        trade_batch_failures |-> Len(failures),
        trade_batch_items |->
            [k \in 1..Len(payloads) |->
                [exchange |-> payloads[k].exchange,
                 symbol |-> payloads[k].symbol,
                 status |-> Lower(payloads[k].status),
                 timestamp |-> ExtractTradeTimestamp(payloads[k])]]]

\* _process_trade_batch, lines 319-346: the store call, the unpacking of
\* what it returned, and _schedule
ProcessTradeBatch(stream_cfg, topic, payloads, defaults) ==
    \E aggregate \in {AggregatePayload(payloads)} :
      \E entry \in {IntegrityEntry(stream_cfg.name, aggregate, defaults,
                                   Len(appended) + 1)} :
        /\ AddIntegrityPayload(stream_cfg.name, aggregate, defaults)
        /\ IF Unpacks(AddIntegrityReturn(entry.key, entry), 3)
           THEN Schedule(UpdateMessage("integrity", entry.key, entry, topic))
           ELSE UNCHANGED <<scheduled, passes>>

\* whether _process_trade_batch raises for the batch
ProcessTradeBatchRaises(stream_cfg, payloads, defaults) ==
    LET entry == IntegrityEntry(stream_cfg.name, AggregatePayload(payloads),
                                defaults, Len(appended) + 1)
    IN ~Unpacks(AddIntegrityReturn(entry.key, entry), 3)

\* the messages the subscriber threads have taken so far
RECURSIVE TakenBy(_)
TakenBy(ss) ==
    IF ss = {} THEN 0
    ELSE LET s == CHOOSE x \in ss : TRUE
         IN subs[s].taken + TakenBy(ss \ {s})

\* run(): the loop test passed and recv_multipart / _decode_frames gave a
\* message
SubTake(s, inputs) ==
    /\ subs[s].pc = "idle"
    /\ ~subs[s].stop_event
    /\ TakenBy(Subscribers) < MaxAppMessages
    /\ \E input \in inputs :
           subs' = [subs EXCEPT ![s] =
                       [pc |-> "handle", stop_event |-> FALSE,
                        taken |-> subs[s].taken + 1,
                        topic |-> input[1], payload |-> input[2]]]

\* the thread is back at its loop test
SubIdle(s) ==
    [pc |-> "idle", stop_event |-> subs[s].stop_event, taken |-> subs[s].taken]

\* _handle_xdp up to _schedule: the store call and the unpacking
HandleXdp(s) ==
    /\ subs[s].pc = "handle"
    /\ LET payload == subs[s].payload
           entry == XdpEntry(XdpStream.name, payload, Len(appended) + 1)
           key == XdpKey(payload)
       IN /\ AddXdpPayload(XdpStream.name, payload)
          /\ subs' = [subs EXCEPT ![s] =
                 IF Unpacks(AddXdpReturn(key, entry), 2)
                 THEN [pc |-> "schedule", stop_event |-> subs[s].stop_event,
                       taken |-> subs[s].taken,
                       message |-> UpdateMessage("xdp", key, entry,
                                                 subs[s].topic)]
                 ELSE SubIdle(s)]

\* (mutant) the type is compared as it came
IsTradeEvent_AsReceived(payload) == payload.type = "trade"

\* _handle_integrity, lines 371-372: the event is a trade event
IsTradeEvent(payload) == Lower(payload.type) = "trade"

\* _handle_integrity for a trade event: it goes to the aggregator
HandleTrade(s) ==
    /\ subs[s].pc = "handle"
    /\ IsTradeEvent(subs[s].payload)
    /\ AggAdd(TradeStream, subs[s].topic, subs[s].payload, Fallback(TradeStream))
    /\ subs' = [subs EXCEPT ![s] = SubIdle(s)]

\* _handle_integrity for any other event, up to _schedule: the store call
\* and the unpacking
HandleIntegrity(s) ==
    /\ subs[s].pc = "handle"
    /\ ~IsTradeEvent(subs[s].payload)
    /\ LET payload == subs[s].payload
           entry == IntegrityEntry(TradeStream.name, payload,
                                   Fallback(TradeStream), Len(appended) + 1)
       IN /\ AddIntegrityPayload(TradeStream.name, payload, Fallback(TradeStream))
          /\ subs' = [subs EXCEPT ![s] =
                 IF Unpacks(AddIntegrityReturn(entry.key, entry), 3)
                 THEN [pc |-> "schedule", stop_event |-> subs[s].stop_event,
                       taken |-> subs[s].taken,
                       message |-> UpdateMessage("integrity", entry.key, entry,
                                                 subs[s].topic)]
                 ELSE SubIdle(s)]

\* the handler's last statement: _schedule(message)
SubSchedule(s) ==
    /\ subs[s].pc = "schedule"
    /\ Schedule(subs[s].message)
    /\ subs' = [subs EXCEPT ![s] = SubIdle(s)]

\* run(): the loop test finds the stop flag set
SubExit(s) ==
    /\ subs[s].pc = "idle"
    /\ subs[s].stop_event
    /\ subs' = [subs EXCEPT ![s].pc = "exited"]

\* the order of app.state.subscribers
SubOrder == <<"xdp", "integrity">>

\* (mutant) join() without a timeout returns only when the thread is gone
JoinReturns_NoTimeout(s) == subs[s].pc = "exited"

\* sub.join(timeout=1.5) returns: the thread has exited or the time is up
JoinReturns(s) == TRUE

\* the shutdown event: _shutdown starts
ShutdownStart ==
    /\ shutdown_pc.at = "running"
    /\ shutdown_pc' = [at |-> "stop", i |-> 1]
    /\ UNCHANGED <<loop, scheduled, subs>>

\* for sub in subscribers: sub.stop()
ShutdownStop ==
    /\ shutdown_pc.at = "stop"
    /\ subs' = [subs EXCEPT ![SubOrder[shutdown_pc.i]].stop_event = TRUE]
    /\ shutdown_pc' = IF shutdown_pc.i < Len(SubOrder)
                      THEN [at |-> "stop", i |-> shutdown_pc.i + 1]
                      ELSE [at |-> "join", i |-> 1]
    /\ UNCHANGED <<loop, scheduled>>

\* for sub in subscribers: sub.join(timeout=1.5)
ShutdownJoin ==
    /\ shutdown_pc.at = "join"
    /\ JoinReturns(SubOrder[shutdown_pc.i])
    /\ shutdown_pc' = IF shutdown_pc.i < Len(SubOrder)
                      THEN [at |-> "join", i |-> shutdown_pc.i + 1]
                      ELSE [at |-> "drain", i |-> 1]
    /\ UNCHANGED <<loop, scheduled, subs>>

\* trade_batch_aggregator.drain() is called
ShutdownDrain ==
    /\ shutdown_pc.at = "drain"
    /\ DrainCall
    /\ shutdown_pc' = [at |-> "draining", i |-> 1]
    /\ UNCHANGED <<loop, scheduled, subs>>

\* drain has returned: app.state.subscribers.clear(); app.state.loop = None
ShutdownClear ==
    /\ shutdown_pc.at = "draining"
    /\ drain.pc = "returned"
    /\ loop' = FALSE
    /\ shutdown_pc' = [at |-> "done", i |-> 1]
    /\ UNCHANGED <<scheduled, subs>>

(***************************************************************************)
(* SpecStore: any sequence of add_xdp_payload and add_integrity_payload     *)
(* calls on a store of any configuration.                                   *)
(***************************************************************************)
InitStore ==
    /\ \E xp \in 1..MaxPoints, ip \in 1..MaxPoints, r \in RetentionConfigs :
           StoreInit(xp, ip, r)
    /\ AggInit /\ WorkerInit /\ HubInit /\ RestInit

StoreAddXdp ==
    /\ Len(appended) < MaxAdds
    /\ \E input \in XdpInputs : AddXdpPayload(input[1], input[2])
    /\ UNCHANGED <<aggVars, workerVars, hubVars, restVars>>

StoreAddIntegrity ==
    /\ Len(appended) < MaxAdds
    /\ \E input \in IntegrityInputs :
           AddIntegrityPayload(input[1], input[2], input[3])
    /\ UNCHANGED <<aggVars, workerVars, hubVars, restVars>>

NextStore == StoreAddXdp \/ StoreAddIntegrity

SpecStore == InitStore /\ [][NextStore]_vars

(***************************************************************************)
(* SpecAlertBurst: a long run of one failing integrity payload, long enough *)
(* to fill the alert log.                                                   *)
(***************************************************************************)
InitAlertBurst ==
    /\ \E ip \in 1..MaxPoints : StoreInit(1, ip, EmptyDict)
    /\ AggInit /\ WorkerInit /\ HubInit /\ RestInit

BurstAddIntegrity ==
    /\ Len(appended) < MaxBurst
    /\ AddIntegrityPayload(BurstInput[1], BurstInput[2], BurstInput[3])
    /\ UNCHANGED <<aggVars, workerVars, hubVars, restVars>>

NextAlertBurst == BurstAddIntegrity

SpecAlertBurst == InitAlertBurst /\ [][NextAlertBurst]_vars

(***************************************************************************)
(* SpecAgg: trade events of one stream handed to the aggregator, the clock, *)
(* and the timer threads.                                                   *)
(***************************************************************************)
InitAgg ==
    /\ StoreInit(1, 1, EmptyDict)
    /\ AggInit /\ WorkerInit /\ HubInit /\ RestInit

AggAddTrade ==
    /\ Len(accepted) < MaxAggAdds
    /\ \E input \in TradeInputs :
           AggAdd(TradeStream, input[1], input[2],
                  [hostname |-> TradeStream.hostname,
                   interface |-> TradeStream.interface])
    /\ UNCHANGED <<storeVars, workerVars, hubVars, restVars>>

AggTimerFire ==
    /\ \E timer \in DOMAIN timers : TimerFire(timer)
    /\ UNCHANGED <<storeVars, workerVars, hubVars, restVars>>

AggFlushPop ==
    /\ \E timer \in DOMAIN flushes : FlushPop(timer)
    /\ UNCHANGED <<storeVars, workerVars, hubVars, restVars>>

AggFlushProcess ==
    /\ \E timer \in DOMAIN flushes : FlushProcess(timer)
    /\ UNCHANGED <<storeVars, workerVars, hubVars, restVars>>

AggTick ==
    /\ Tick
    /\ UNCHANGED <<storeVars, workerVars, hubVars, restVars>>

NextAgg ==
    AggAddTrade \/ AggTimerFire \/ AggFlushPop \/ AggFlushProcess \/ AggTick

SpecAgg == InitAgg /\ [][NextAgg]_vars

(***************************************************************************)
(* SpecAggDrain: the aggregator as in SpecAgg, with one drain() call that   *)
(* may start at any time and runs on its own thread.                        *)
(***************************************************************************)
FrameOfDrain ==
    UNCHANGED <<storeVars, workerVars, hubVars, threadVars, appVars, queryVars>>

DrainAddTrade ==
    /\ Len(accepted) < MaxDrainAdds
    /\ \E input \in DrainTradeInputs :
           AggAdd(TradeStream, input[1], input[2],
                  [hostname |-> TradeStream.hostname,
                   interface |-> TradeStream.interface])
    /\ UNCHANGED drain
    /\ FrameOfDrain

DrainTimerFire ==
    /\ \E timer \in DOMAIN timers : TimerFire(timer)
    /\ UNCHANGED drain
    /\ FrameOfDrain

DrainFlushPop ==
    /\ \E timer \in DOMAIN flushes : FlushPop(timer)
    /\ UNCHANGED drain
    /\ FrameOfDrain

DrainFlushProcess ==
    /\ \E timer \in DOMAIN flushes : FlushProcess(timer)
    /\ UNCHANGED drain
    /\ FrameOfDrain

DrainTick == now < MaxDrainTime /\ Tick /\ UNCHANGED drain /\ FrameOfDrain

AggDrainCall == DrainCall /\ FrameOfDrain

AggDrainPop == DrainPop /\ FrameOfDrain

AggDrainCancel == DrainCancel /\ FrameOfDrain

AggDrainProcess == DrainProcess /\ FrameOfDrain

NextAggDrain ==
    \/ DrainAddTrade \/ DrainTimerFire \/ DrainFlushPop \/ DrainFlushProcess
    \/ DrainTick
    \/ AggDrainCall \/ AggDrainPop \/ AggDrainCancel \/ AggDrainProcess

SpecAggDrain == InitAgg /\ [][NextAggDrain]_vars

(***************************************************************************)
(* SpecWorker: one ingestion worker, the frames it is sent, and stop().     *)
(***************************************************************************)
InitWorker ==
    /\ StoreInit(1, 1, EmptyDict)
    /\ AggInit /\ WorkerInit /\ HubInit /\ RestInit

WorkerLoop == RunLoopTest /\ UNCHANGED <<storeVars, aggVars, hubVars, restVars>>
WorkerPoll == RunPoll /\ UNCHANGED <<storeVars, aggVars, hubVars, restVars>>
WorkerRecv == RunRecv /\ UNCHANGED <<storeVars, aggVars, hubVars, restVars>>
WorkerRecvError == RunRecvError /\ UNCHANGED <<storeVars, aggVars, hubVars, restVars>>
WorkerDecode == RunDecode /\ UNCHANGED <<storeVars, aggVars, hubVars, restVars>>
WorkerHandle == RunHandle /\ UNCHANGED <<storeVars, aggVars, hubVars, restVars>>
WorkerStop == Stop /\ UNCHANGED <<storeVars, aggVars, hubVars, restVars>>

NextWorker ==
    \/ WorkerLoop \/ WorkerPoll \/ WorkerRecv \/ WorkerRecvError
    \/ WorkerDecode \/ WorkerHandle \/ WorkerStop

SpecWorker == InitWorker /\ [][NextWorker]_vars

\* the steps of the thread that runs run()
WorkerThread ==
    \/ WorkerLoop \/ WorkerPoll \/ WorkerRecv \/ WorkerRecvError
    \/ WorkerDecode \/ WorkerHandle

\* the worker thread keeps running and its handler calls end; stop() may
\* never be called
SpecWorkerFair == SpecWorker /\ WF_vars(WorkerThread)

(***************************************************************************)
(* SpecHub: websockets joining and leaving, and broadcast passes, on the    *)
(* event loop.                                                              *)
(***************************************************************************)
InitHub ==
    /\ StoreInit(1, 1, EmptyDict)
    /\ AggInit /\ WorkerInit /\ HubInit /\ RestInit

HubConnect ==
    /\ \E ws \in Websockets : WsConnect(ws)
    /\ UNCHANGED <<storeVars, aggVars, workerVars, restVars>>

HubRegister ==
    /\ \E ws \in Websockets : WsRegister(ws)
    /\ UNCHANGED <<storeVars, aggVars, workerVars, restVars>>

HubSnapshot ==
    /\ \E ws \in Websockets : WsSnapshot(ws)
    /\ UNCHANGED <<storeVars, aggVars, workerVars, restVars>>

HubDisconnect ==
    /\ \E ws \in Websockets : WsDisconnect(ws)
    /\ UNCHANGED <<storeVars, aggVars, workerVars, restVars>>

HubBroadcastStart ==
    /\ BroadcastStart
    /\ UNCHANGED <<storeVars, aggVars, workerVars, restVars>>

HubBroadcastSend ==
    /\ \E n \in DOMAIN passes : BroadcastSend(n)
    /\ UNCHANGED <<storeVars, aggVars, workerVars, restVars>>

NextHub ==
    \/ HubConnect \/ HubRegister \/ HubSnapshot \/ HubDisconnect
    \/ HubBroadcastStart \/ HubBroadcastSend

SpecHub == InitHub /\ [][NextHub]_vars

(***************************************************************************)
(* SpecApp: the running application.  The two subscriber threads take       *)
(* messages and run their handlers, the timer threads flush trade batches   *)
(* through _process_trade_batch, and _shutdown may start at any time.       *)
(***************************************************************************)
InitApp ==
    /\ StoreInit(MaxPoints, MaxPoints, EmptyDict)
    /\ AggInit /\ WorkerInit /\ HubInit /\ RestInit

FrameOfApp == UNCHANGED <<workerVars, hubVars, threadVars, queryVars>>

AppTakeXdp ==
    /\ SubTake("xdp", AppXdpInputs)
    /\ UNCHANGED <<loop, scheduled, shutdown_pc, storeVars, aggVars, drainVars>>
    /\ FrameOfApp

AppTakeIntegrity ==
    /\ SubTake("integrity", AppIntegrityInputs)
    /\ UNCHANGED <<loop, scheduled, shutdown_pc, storeVars, aggVars, drainVars>>
    /\ FrameOfApp

AppHandleXdp ==
    /\ HandleXdp("xdp")
    /\ UNCHANGED <<loop, scheduled, shutdown_pc, aggVars, drainVars>>
    /\ FrameOfApp

AppHandleTrade ==
    /\ HandleTrade("integrity")
    /\ UNCHANGED <<loop, scheduled, shutdown_pc, storeVars, drainVars>>
    /\ FrameOfApp

AppHandleIntegrity ==
    /\ HandleIntegrity("integrity")
    /\ UNCHANGED <<loop, scheduled, shutdown_pc, aggVars, drainVars>>
    /\ FrameOfApp

AppSchedule ==
    /\ \E s \in Subscribers : SubSchedule(s)
    /\ UNCHANGED <<loop, shutdown_pc, storeVars, aggVars, drainVars>>
    /\ FrameOfSchedule

AppExit ==
    /\ \E s \in Subscribers : SubExit(s)
    /\ UNCHANGED <<loop, scheduled, shutdown_pc, storeVars, aggVars, drainVars>>
    /\ FrameOfApp

AppTimerFire ==
    /\ \E timer \in DOMAIN timers : TimerFire(timer)
    /\ UNCHANGED <<appVars, storeVars, drainVars>>
    /\ FrameOfApp

AppFlushPop ==
    /\ \E timer \in DOMAIN flushes : FlushPop(timer)
    /\ UNCHANGED <<appVars, storeVars, drainVars>>
    /\ FrameOfApp

AppFlushProcess ==
    /\ \E timer \in DOMAIN flushes :
           /\ flushes[timer].pc = "process"
           /\ LET batch == flushes[timer].batch
              IN /\ FlushProcessWith(timer,
                        ProcessTradeBatchRaises(batch.stream_cfg, batch.payloads,
                                                batch.defaults))
                 /\ ProcessTradeBatch(batch.stream_cfg, batch.topic,
                                      batch.payloads, batch.defaults)
    /\ UNCHANGED <<loop, subs, shutdown_pc, drainVars>>
    /\ FrameOfSchedule

AppTick ==
    /\ now < MaxAppTime
    /\ Tick
    /\ UNCHANGED <<appVars, storeVars, drainVars>>
    /\ FrameOfApp

AppShutdownStart ==
    /\ ShutdownStart
    /\ UNCHANGED <<storeVars, aggVars, drainVars>>
    /\ FrameOfApp

AppShutdownStop ==
    /\ ShutdownStop
    /\ UNCHANGED <<storeVars, aggVars, drainVars>>
    /\ FrameOfApp

AppShutdownJoin ==
    /\ ShutdownJoin
    /\ UNCHANGED <<storeVars, aggVars, drainVars>>
    /\ FrameOfApp

AppShutdownDrain ==
    /\ ShutdownDrain
    /\ UNCHANGED storeVars
    /\ FrameOfApp

AppDrainPop ==
    /\ DrainPop
    /\ UNCHANGED <<appVars, storeVars>>
    /\ FrameOfApp

AppDrainCancel ==
    /\ DrainCancel
    /\ UNCHANGED <<appVars, storeVars>>
    /\ FrameOfApp

AppDrainProcess ==
    /\ drain.pc = "process"
    /\ DrainProcessWith(
           ProcessTradeBatchRaises(drain.batch.stream_cfg, drain.batch.payloads,
                                   drain.batch.defaults))
    /\ ProcessTradeBatch(drain.batch.stream_cfg, drain.batch.topic,
                         drain.batch.payloads, drain.batch.defaults)
    /\ UNCHANGED <<loop, subs, shutdown_pc>>
    /\ FrameOfSchedule

AppShutdownClear ==
    /\ ShutdownClear
    /\ UNCHANGED <<storeVars, aggVars, drainVars>>
    /\ FrameOfApp

NextApp ==
    \/ AppTakeXdp \/ AppTakeIntegrity
    \/ AppHandleXdp \/ AppHandleTrade \/ AppHandleIntegrity
    \/ AppSchedule \/ AppExit
    \/ AppTimerFire \/ AppFlushPop \/ AppFlushProcess \/ AppTick
    \/ AppShutdownStart \/ AppShutdownStop \/ AppShutdownJoin
    \/ AppShutdownDrain \/ AppDrainPop \/ AppDrainCancel \/ AppDrainProcess
    \/ AppShutdownClear

SpecApp == InitApp /\ [][NextApp]_vars

\* the steps of the thread that runs _shutdown, up to drain's processor call
ShutdownThread ==
    \/ AppShutdownStop \/ AppShutdownJoin \/ AppShutdownDrain \/ AppDrainPop
    \/ AppDrainCancel \/ AppShutdownClear

\* drain's processor call as the position of the thread that runs it: from
\* the call back to the head of drain's loop (the step AppDrainProcess takes)
DrainProcessReturns ==
    /\ drain.pc = "process"
    /\ drain' = [pc |-> "pop", pending |-> drain.pending,
                 accepted |-> drain.accepted]

\* _shutdown runs on the event loop thread, which keeps running; nothing is
\* assumed of the subscriber and timer threads
SpecAppFair ==
    SpecApp /\ WF_vars(ShutdownThread) /\ WF_drain(DrainProcessReturns)

(***************************************************************************)
(* SpecDeliver: the application of SpecApp together with the delivery       *)
(* context.  The event loop runs the broadcast coroutines that _schedule    *)
(* queued, in the order they were queued, one pass for each, and serves a   *)
(* websocket client that joins: metrics_ws takes store.snapshot() and calls *)
(* hub.add.  `held` maps a client to the snapshot taken for it.             *)
(***************************************************************************)
\* the clients that connect
DeliverSinks == {"ws1"}

InitDeliver ==
    /\ StoreInit(MaxPoints, MaxPoints, EmptyDict)
    /\ AggInit /\ WorkerInit /\ HubInit
    /\ DrainInit /\ ThreadsInit /\ AppInit
    /\ answer = [op |-> "none"]
    /\ held = EmptyDict

\* (topic, payload) of the messages the subscriber threads take: on the xdp
\* stream one payload, on the integrity stream a trade event and another
DeliverXdpInputs == {<<"xdp", XdpPayload("h1", "eth0", 1000, 100, 200)>>}

DeliverIntegrityInputs ==
    { <<"integrity_trade", TradePayload("ex", 30, "ok")>>,
      <<"integrity", IntegrityPayload("EX", "kline", "", "FAIL", <<>>, 1001)>> }

DeliverTakeXdp ==
    /\ SubTake("xdp", DeliverXdpInputs)
    /\ UNCHANGED <<loop, scheduled, shutdown_pc, storeVars, aggVars, drainVars>>
    /\ FrameOfApp

DeliverTakeIntegrity ==
    /\ SubTake("integrity", DeliverIntegrityInputs)
    /\ UNCHANGED <<loop, scheduled, shutdown_pc, storeVars, aggVars, drainVars>>
    /\ FrameOfApp

\* metrics_ws, line 545: store.snapshot() is evaluated, then hub.add is
\* called and awaits ws.accept()
DeliverConnect ==
    /\ \E ws \in DeliverSinks :
           /\ WsConnect(ws)
           /\ held' = Put(held, ws, [at |-> Len(appended),
                                     value |-> StoreSnapshot])
    /\ UNCHANGED <<answer, storeVars, aggVars, workerVars, drainVars,
                   threadVars, appVars>>

DeliverRegister ==
    /\ \E ws \in DeliverSinks : WsRegister(ws)
    /\ UNCHANGED <<storeVars, aggVars, workerVars, restVars>>

DeliverSnapshot ==
    /\ \E ws \in DeliverSinks : WsSnapshot(ws)
    /\ UNCHANGED <<storeVars, aggVars, workerVars, restVars>>

DeliverDisconnect ==
    /\ \E ws \in DeliverSinks : WsDisconnect(ws)
    /\ UNCHANGED <<storeVars, aggVars, workerVars, restVars>>

\* the loop starts the next queued coroutine: pass k publishes scheduled[k]
DeliverBroadcastStart ==
    /\ Cardinality(DOMAIN passes) < Len(scheduled)
    /\ BroadcastStart
    /\ UNCHANGED <<storeVars, aggVars, workerVars, restVars>>

DeliverBroadcastSend ==
    /\ \E n \in DOMAIN passes : BroadcastSend(n)
    /\ UNCHANGED <<storeVars, aggVars, workerVars, restVars>>

NextDeliver ==
    \/ DeliverTakeXdp \/ DeliverTakeIntegrity
    \/ AppHandleXdp \/ AppHandleTrade \/ AppHandleIntegrity
    \/ AppSchedule \/ AppExit
    \/ AppTimerFire \/ AppFlushPop \/ AppFlushProcess \/ AppTick
    \/ AppShutdownStart \/ AppShutdownStop \/ AppShutdownJoin
    \/ AppShutdownDrain \/ AppDrainPop \/ AppDrainCancel \/ AppDrainProcess
    \/ AppShutdownClear
    \/ DeliverConnect \/ DeliverRegister \/ DeliverSnapshot
    \/ DeliverDisconnect \/ DeliverBroadcastStart \/ DeliverBroadcastSend

SpecDeliver == InitDeliver /\ [][NextDeliver]_vars

(***************************************************************************)
(* SpecStoreThreads: two threads adding and one reader taking snapshots,    *)
(* all on one store whose series keep one point.                            *)
(***************************************************************************)
InitStoreThreads ==
    /\ StoreInit(1, 1, EmptyDict)
    /\ AggInit /\ WorkerInit /\ HubInit /\ RestInit

FrameOfThreads ==
    UNCHANGED <<aggVars, workerVars, hubVars, drainVars, appVars, queryVars>>

ThreadCallAdd == (\E t \in Writers : ThCallAdd(t)) /\ FrameOfThreads

ThreadAcquire == (\E t \in Threads : ThAcquire(t)) /\ FrameOfThreads

ThreadAppendXdp == (\E t \in Writers : ThAppendXdp(t)) /\ FrameOfThreads

ThreadTrimXdp == (\E t \in Writers : ThTrimXdp(t)) /\ FrameOfThreads

ThreadAppendIntegrity ==
    (\E t \in Writers : ThAppendIntegrity(t)) /\ FrameOfThreads

ThreadTrimIntegrity == (\E t \in Writers : ThTrimIntegrity(t)) /\ FrameOfThreads

ThreadAlert == (\E t \in Writers : ThAlert(t)) /\ FrameOfThreads

ThreadRelease == (\E t \in Writers : ThRelease(t)) /\ FrameOfThreads

ThreadSnapCall == SnapCall /\ FrameOfThreads

ThreadSnapCopy == SnapCopy /\ FrameOfThreads

NextStoreThreads ==
    \/ ThreadCallAdd \/ ThreadAcquire
    \/ ThreadAppendXdp \/ ThreadTrimXdp
    \/ ThreadAppendIntegrity \/ ThreadTrimIntegrity \/ ThreadAlert
    \/ ThreadRelease \/ ThreadSnapCall \/ ThreadSnapCopy

SpecStoreThreads == InitStoreThreads /\ [][NextStoreThreads]_vars

(***************************************************************************)
(* SpecQuery: add_* calls on one store, with integrity_series,              *)
(* latest_xdp_entry and snapshot calls between them.  `answer` is what the  *)
(* last call returned; `held` is the last snapshot, which its caller keeps. *)
(***************************************************************************)
Filters(ex, sym, host, iface, ty, stg) ==
    [exchange |-> ex, symbol |-> sym, hostname |-> host, interface |-> iface,
     type_filter |-> ty, stage |-> stg]

\* the filter arguments of the integrity_series calls
QueryFilters ==
    { Filters(None, None, None, None, None, None),
      Filters("ex", None, None, None, None, None),
      Filters("ex", "", None, None, "kline", None),
      Filters(None, None, "h1", None, None, "live"),
      Filters(None, "BTC", None, "eth0", None, None) }

\* the limit arguments: 0 stands for None
QueryLimits == {0, 1, 2}

\* (source, payload, defaults) of the add_integrity_payload calls
QueryIntegrityInputs ==
    {input \in IntegrityInputs : input[2].status \in {"ok", "FAIL", "error"}}

InitQuery ==
    /\ StoreInit(MaxPoints, MaxPoints, EmptyDict)
    /\ AggInit /\ WorkerInit /\ HubInit /\ RestInit

FrameOfQuery ==
    UNCHANGED <<aggVars, workerVars, hubVars, drainVars, threadVars, appVars>>

QueryAddXdp ==
    /\ Len(appended) < MaxQueryAdds
    /\ \E input \in XdpInputs :
           /\ AddXdpPayload(input[1], input[2])
           /\ answer' = [op |-> "add_xdp_payload",
                         value |-> AddXdpReturn(XdpKey(input[2]),
                                       XdpEntry(input[1], input[2],
                                                Len(appended) + 1))]
    /\ UNCHANGED held
    /\ FrameOfQuery

QueryAddIntegrity ==
    /\ Len(appended) < MaxQueryAdds
    /\ \E input \in QueryIntegrityInputs :
         \E entry \in {IntegrityEntry(input[1], input[2], input[3],
                                      Len(appended) + 1)} :
           /\ AddIntegrityPayload(input[1], input[2], input[3])
           /\ answer' = [op |-> "add_integrity_payload",
                         value |-> AddIntegrityReturn(entry.key, entry)]
    /\ UNCHANGED held
    /\ FrameOfQuery

QueryIntegritySeries ==
    /\ \E filters \in QueryFilters, limit \in QueryLimits :
           answer' = [op |-> "integrity_series", filters |-> filters,
                      limit |-> limit,
                      value |-> IntegritySeriesQuery(filters, limit)]
    /\ UNCHANGED <<held, storeVars>>
    /\ FrameOfQuery

QueryLatestXdp ==
    /\ answer' = [op |-> "latest_xdp_entry", value |-> LatestXdpEntry]
    /\ UNCHANGED <<held, storeVars>>
    /\ FrameOfQuery

QuerySnapshot ==
    /\ held' = [op |-> "snapshot", value |-> StoreSnapshot,
                xdp |-> xdp_series, integrity |-> integrity_series,
                alerts |-> alerts]
    /\ answer' = [op |-> "snapshot"]
    /\ UNCHANGED storeVars
    /\ FrameOfQuery

NextQuery ==
    \/ QueryAddXdp \/ QueryAddIntegrity
    \/ QueryIntegritySeries \/ QueryLatestXdp \/ QuerySnapshot

SpecQuery == InitQuery /\ [][NextQuery]_vars

(***************************************************************************)
(* SpecCounts: add_xdp_payload calls of named streams and of callers that   *)
(* give no source, on a store of any bound.                                 *)
(***************************************************************************)
\* (source, payload) of the adds: two interfaces, fed by x1, x2, a stream
\* named "default" and callers without a source
CountsInputs ==
    XdpInputs
    \cup { <<None, XdpPayload("h1", "eth0", 1003, 100, 200)>>,
           <<"", XdpPayload("h2", "", 1004, 100, 200)>>,
           <<"default", XdpPayload("h1", "eth0", 1005, 100, 200)>> }

InitCounts == InitStore

CountsAddXdp ==
    /\ Len(appended) < MaxAdds
    /\ \E input \in CountsInputs : AddXdpPayload(input[1], input[2])
    /\ UNCHANGED <<aggVars, workerVars, hubVars, restVars>>

CountsAddIntegrity == StoreAddIntegrity

NextCounts == CountsAddXdp \/ CountsAddIntegrity

SpecCounts == InitCounts /\ [][NextCounts]_vars

(***************************************************************************)
(* SpecRetention: add_integrity_payload calls of three streams on one       *)
(* store, with set_integrity_retention calls between them.  `answer` is the *)
(* call made last.                                                          *)
(***************************************************************************)
\* (source, payload, defaults) of the adds: s1 and S1 feed one series
RetentionInputs ==
    { <<"s1", IntegrityPayload("ex", "kline", "", "ok", <<>>, 1000), NoDefaults>>,
      <<"S1", IntegrityPayload("ex", "kline", "", "ok", <<>>, 1001), NoDefaults>>,
      <<"s2", IntegrityPayload("ex", "depth", "live", "error", <<>>, 1001),
        NoDefaults>> }

RetentionStreams == {"s1", "s2"}

\* the `points` arguments
RetentionPoints == {Absent, Text, Number(-1), Number(0), Number(1), Number(3)}

InitRetention ==
    /\ StoreInit(MaxPoints, MaxPoints, EmptyDict)
    /\ AggInit /\ WorkerInit /\ HubInit /\ RestInit

RetentionAdd ==
    /\ Len(appended) < MaxQueryAdds
    /\ \E input \in RetentionInputs :
           /\ AddIntegrityPayload(input[1], input[2], input[3])
           /\ answer' = [op |-> "add_integrity_payload", stream |-> input[1]]
    /\ UNCHANGED held
    /\ FrameOfQuery

RetentionSet ==
    /\ \E stream \in RetentionStreams, points \in RetentionPoints :
           /\ SetIntegrityRetention(stream, points)
           /\ answer' = [op |-> "set_integrity_retention", stream |-> stream,
                         points |-> points]
    /\ UNCHANGED held
    /\ FrameOfQuery

NextRetention == RetentionAdd \/ RetentionSet

SpecRetention == InitRetention /\ [][NextRetention]_vars

(***************************************************************************)
(* SpecEntry: what add_integrity_payload and add_xdp_payload make of one    *)
(* payload, over the payloads below.  A run is one call: `answer` starts as *)
(* the call with its arguments and becomes what was computed.               *)
(***************************************************************************)
\* the identifying components of an integrity payload: source, hostname,
\* interface, exchange, stage, type
KeyInputs ==
    [source : {"s1", "S1"}, hostname : {"", "h1"}, interface : {"", "h1"},
     exchange : {"ex", "EX"}, stage : {"", "live", "LIVE"},
     type : {"kline", "live"}]

\* the status and results of the payloads whose entry is built
StatusInputs ==
    {[status |-> st, results |-> res] :
        st \in {"ok", "OK", "FAIL", "error", ""},
        res \in { <<>>,
                  <<ResultItem("btc", "ok", <<>>)>>,
                  <<ResultItem("btc", "fail", <<>>)>>,
                  <<ResultItem("", "fail", <<>>)>>,
                  <<ResultItem("btc", "", <<Request("depth", "fail")>>)>>,
                  <<ResultItem("btc", "ok", <<Request("depth", "ok")>>)>>,
                  <<ResultItem("btc", "ok", <<Request("depth", "fail")>>),
                    ResultItem("eth", "FAIL", <<>>)>> }}

\* the throughput payloads, as received
RawXdpInputs ==
    {[hostname |-> "h1", interface |-> "eth0", timestamp |-> ts,
      metrics |-> [kind |-> kind, bps_avg |-> avg, bps_max |-> max]] :
        ts \in {Absent, Number(1000), Text, HugeInt, PastYear9999},
        kind \in {"dict", "list"},
        avg \in {Absent, Number(0), Number(100), Number(-5), Text, HugeInt},
        max \in {Absent, Number(200), Number(-5), Text}}

\* the entry add_integrity_payload builds for the components and a symbol
EntryOfComponents(c, symbol) ==
    IntegrityEntry(c.source,
                   [IntegrityPayload(c.exchange, c.type, c.stage, "ok", <<>>, 1000)
                       EXCEPT !.hostname = c.hostname,
                              !.interface = c.interface,
                              !.symbol = symbol],
                   NoDefaults, 1)

\* the batches handed to _process_trade_batch: one to three trade events
BatchStatuses == {"ok", "OK", "fail", ""}

BatchInputs ==
    {<<TradePayload("ex", 30, a)>> : a \in BatchStatuses}
    \cup {<<TradePayload("ex", 30, a), TradePayload("EX", 45, b)>> :
              a, b \in BatchStatuses}
    \cup {<<TradePayload("ex", 30, a), TradePayload("EX", 45, b),
             TradePayload("ex", 50, c)>> : a, b, c \in BatchStatuses}

\* streams that configure a hostname and an interface, or leave them out
TaggedStreams ==
    {StreamCfg("s1", "integrity", host, iface) :
        host \in {None, "", "h1"}, iface \in {None, "eth0"}}

\* events that carry a hostname and an interface of their own, or none
TaggedPayloads ==
    {[IntegrityPayload("ex", "kline", "", "ok", <<>>, 1000)
         EXCEPT !.hostname = host, !.interface = iface] :
        host \in {"", "h2"}, iface \in {"", "eth1"}}
    \cup {[TradePayload("ex", 30, "ok")
               EXCEPT !.hostname = host, !.interface = iface] :
              host \in {"", "h2"}, iface \in {"", "eth1"}}

\* the calls of the runs
EntryCalls ==
    {[op |-> "call", fn |-> "keys", a |-> a, b |-> b] : a, b \in KeyInputs}
    \cup {[op |-> "call", fn |-> "add_integrity_payload",
           payload |-> IntegrityPayload("ex", "kline", "", input.status,
                                        input.results, 1000)] :
             input \in StatusInputs}
    \cup {[op |-> "call", fn |-> "add_xdp_payload", raw |-> raw] :
             raw \in RawXdpInputs}
    \cup {[op |-> "call", fn |-> "process_trade_batch", payloads |-> payloads] :
             payloads \in BatchInputs}
    \cup {[op |-> "call", fn |-> "handle_integrity", stream_cfg |-> cfg,
           payload |-> payload] :
             cfg \in TaggedStreams, payload \in TaggedPayloads}

InitEntry ==
    /\ StoreInit(1, 1, EmptyDict)
    /\ AggInit /\ WorkerInit /\ HubInit
    /\ DrainInit /\ ThreadsInit /\ AppInit
    /\ held = [op |-> "none"]
    /\ answer \in EntryCalls

FrameOfEntry ==
    UNCHANGED <<storeVars, aggVars, workerVars, hubVars, drainVars, threadVars,
                appVars, held>>

\* two payloads that differ in symbol, and in whatever else a and b differ
EntryKeys ==
    /\ answer.op = "call" /\ answer.fn = "keys"
    /\ answer' = [op |-> "keys", a |-> answer.a, b |-> answer.b,
                  value |-> <<EntryOfComponents(answer.a, "btc").key,
                              EntryOfComponents(answer.b, "eth").key>>]
    /\ FrameOfEntry

\* add_integrity_payload(payload, source="s1"), up to the entry it builds
EntryIntegrity ==
    /\ answer.op = "call" /\ answer.fn = "add_integrity_payload"
    /\ answer' = [op |-> "add_integrity_payload", payload |-> answer.payload,
                  value |-> IntegrityEntry("s1", answer.payload, NoDefaults, 1)]
    /\ FrameOfEntry

\* add_xdp_payload(raw, source="x1"), up to its return or what it raises
EntryXdp ==
    /\ answer.op = "call" /\ answer.fn = "add_xdp_payload"
    /\ LET parsed == ParseXdpPayload(answer.raw)
       IN answer' =
              IF parsed.raised # None
              THEN [op |-> "add_xdp_payload", raw |-> answer.raw,
                    raised |-> parsed.raised]
              ELSE [op |-> "add_xdp_payload", raw |-> answer.raw,
                    raised |-> None,
                    value |-> AddXdpReturn(XdpKey(parsed.payload),
                                  XdpEntry("x1", parsed.payload, 1))]
    /\ FrameOfEntry

\* _process_trade_batch(TradeStream, topic, payloads, defaults), as a timer
\* thread or drain calls it
EntryBatch ==
    /\ answer.op = "call" /\ answer.fn = "process_trade_batch"
    /\ ProcessTradeBatch(TradeStream, "integrity_trade", answer.payloads,
                         Fallback(TradeStream))
    /\ answer' = [op |-> "process_trade_batch", payloads |-> answer.payloads]
    /\ UNCHANGED <<aggVars, workerVars, connections, ws_pc, inbox,
                   was_registered, drainVars, threadVars, loop, subs,
                   shutdown_pc, held>>

\* _handle_integrity(stream_cfg, topic, payload), up to the point the store
\* builds: of the event itself, or for a trade event of the aggregate of the
\* batch that holds it alone
EntryHandle ==
    /\ answer.op = "call" /\ answer.fn = "handle_integrity"
    /\ LET fallback == Fallback(answer.stream_cfg)
           handed == IF Lower(answer.payload.type) = "trade"
                     THEN AggregatePayload(<<answer.payload>>)
                     ELSE answer.payload
       IN answer' = [op |-> "handle_integrity",
                     stream_cfg |-> answer.stream_cfg,
                     payload |-> answer.payload,
                     value |-> IntegrityEntry(answer.stream_cfg.name, handed,
                                              fallback, 1)]
    /\ FrameOfEntry

NextEntry ==
    \/ EntryKeys \/ EntryIntegrity \/ EntryXdp \/ EntryBatch \/ EntryHandle

SpecEntry == InitEntry /\ [][NextEntry]_vars

(***************************************************************************)
(* Histories read by the properties.                                        *)
(***************************************************************************)
\* the entries ever appended to the series `key` of `scope`, in append order
HistoryOf(scope, key) ==
    LET hits == SelectSeq(appended, LAMBDA a : a.scope = scope /\ a.key = key)
    IN [i \in 1..Len(hits) |-> hits[i].entry]

\* the integrity entries ever appended, in append order
IntegrityHistory ==
    LET hits == SelectSeq(appended, LAMBDA a : a.scope = "integrity")
    IN [i \in 1..Len(hits) |-> hits[i].entry]

IsSuffixOf(s, t) == Len(s) <= Len(t) /\ s = Suffix(t, Len(s))

(***************************************************************************)
(* C1.  After any sequence of add_xdp_payload and add_integrity_payload     *)
(* calls every series is within its bound: a throughput series holds at     *)
(* most xdp_points entries, an integrity series at most the retention limit *)
(* of its stream (the per-stream override, else integrity_points).  What a  *)
(* series holds is exactly the most recently appended entries of its key,   *)
(* in append order: as many of them as the bound allows, so only the oldest *)
(* entries are ever removed, and only when the series is over its bound.    *)
(***************************************************************************)
C1_EvictionFifo ==
    /\ \A key \in DOMAIN xdp_series :
           /\ Len(xdp_series[key]) <= xdp_points
           /\ xdp_series[key] = Suffix(HistoryOf("xdp", key), xdp_points)
    /\ \A key \in DOMAIN integrity_series :
           LET series == integrity_series[key]
               history == HistoryOf("integrity", key)
               limit == IntegrityRetentionLimit(series[Len(series)].stream)
           IN /\ series # <<>>
              /\ Len(series) <= limit
              /\ series = Suffix(history, limit)

\* a series has been over its bound and lost its oldest entries, for both kinds
C1_Witness ==
    /\ \E key \in DOMAIN xdp_series :
           /\ Len(HistoryOf("xdp", key)) > xdp_points
           /\ Len(xdp_series[key]) = xdp_points
    /\ \E key \in DOMAIN integrity_series :
           /\ Len(HistoryOf("integrity", key)) >
                  IntegrityRetentionLimit(integrity_series[key][1].stream)
           /\ integrity_series[key][1].n > HistoryOf("integrity", key)[1].n

(***************************************************************************)
(* C4.  The alert log holds exactly the failing integrity points: every     *)
(* entry of it has is_ok false (so no point with is_ok true is in it), and  *)
(* it is the sequence of all points added with is_ok false, in the order    *)
(* they were added, less the oldest ones its bound has evicted.             *)
(***************************************************************************)
FailingHistory == SelectSeq(IntegrityHistory, LAMBDA e : ~e.is_ok)

C4_AlertsAreTheFailures ==
    /\ \A i \in 1..Len(alerts) : alerts[i].is_ok = FALSE
    /\ IsSuffixOf(alerts, FailingHistory)
    /\ Len(FailingHistory) <= AlertFloor => alerts = FailingHistory

\* a failing point and a passing point have been added; only the first alerts
C4_Witness ==
    /\ Len(alerts) >= 2
    /\ \E i \in 1..Len(IntegrityHistory) : IntegrityHistory[i].is_ok
    /\ \E i \in 1..Len(alerts) :
           alerts[i].status = "fail" /\ alerts[i].failed_symbols # <<>>

(***************************************************************************)
(* C5 (as amended).  The alert log is bounded by count, oldest alerts       *)
(* evicted first, but its bound is max(integrity_points, 128) whatever the  *)
(* per-stream overrides are: it is not the bound that limits a series.      *)
(***************************************************************************)
C5_AlertBound ==
    /\ Len(alerts) <= Max(integrity_points, AlertFloor)
    /\ alerts = Suffix(FailingHistory, Max(integrity_points, AlertFloor))

\* the alert log is full and has evicted its oldest alert
C5_Witness ==
    /\ Len(FailingHistory) > AlertFloor
    /\ Len(alerts) = AlertFloor
    /\ alerts[1].n = Len(FailingHistory) - AlertFloor + 1

\* C5 as claimed: the alert log is within the bound that limits a series
C5_Original ==
    Len(alerts) <= integrity_points

(***************************************************************************)
(* Histories of the aggregator.                                             *)
(***************************************************************************)
\* the arrival numbers of the payloads add() put into the batch of `timer`
AcceptedInto(timer) ==
    LET hits == SelectSeq(accepted, LAMBDA a : a.timer = timer)
    IN [i \in 1..Len(hits) |-> hits[i].n]

\* when the first payload of the batch of `timer` was added
FirstAddedAt(timer) ==
    (SelectSeq(accepted, LAMBDA a : a.timer = timer))[1].at

PayloadNumbers(payloads) == [i \in 1..Len(payloads) |-> payloads[i].n]

InvocationsFor(timer) ==
    {i \in 1..Len(processed) : processed[i].batch = timer}

(***************************************************************************)
(* C2.  The events added under one batch key before the timer armed by the  *)
(* first of them fires are handed to the processor in one invocation: the   *)
(* processor is invoked at most once per batch and exactly once when the    *)
(* batch's timer thread has finished, with all payloads of the batch in     *)
(* arrival order, and not before delay_seconds after the first was added.   *)
(***************************************************************************)
C2_BatchFlushedOnce ==
    /\ \A timer \in DOMAIN timers :
           /\ Cardinality(InvocationsFor(timer)) <= 1
           /\ timers[timer].state = "finished" =>
                  Cardinality(InvocationsFor(timer)) = 1
    /\ \A i \in 1..Len(processed) :
           /\ PayloadNumbers(processed[i].payloads) =
                  AcceptedInto(processed[i].batch)
           /\ processed[i].at >= FirstAddedAt(processed[i].batch) + DelayTicks

\* a batch of two events that arrived at different times has been processed
C2_Witness ==
    \E i \in 1..Len(processed) :
        /\ Len(processed[i].payloads) = 2
        /\ \E a, b \in 1..Len(accepted) :
               /\ accepted[a].timer = processed[i].batch
               /\ accepted[b].timer = processed[i].batch
               /\ accepted[a].at < accepted[b].at

(***************************************************************************)
(* C3 (as amended).  For any batch key at most one batch is pending at a    *)
(* time, and _flush takes a batch out of the pending map before it calls    *)
(* the processor: a batch being processed is no longer pending, and shares  *)
(* no payload with the batch pending for its key.  The processor call is    *)
(* outside the lock, so a later add may start a new batch for the key       *)
(* while the flushed one is still being processed.                          *)
(***************************************************************************)
C3_FlushedBatchNotPending ==
    /\ \A timer \in DOMAIN flushes :
           flushes[timer].pc = "process" =>
               \A key \in DOMAIN batches :
                   /\ batches[key].timer # flushes[timer].batch.timer
                   /\ \A i \in 1..Len(batches[key].payloads),
                         j \in 1..Len(flushes[timer].batch.payloads) :
                          batches[key].payloads[i].n #
                              flushes[timer].batch.payloads[j].n
    /\ \A k1, k2 \in DOMAIN batches :
           batches[k1].timer = batches[k2].timer => k1 = k2

\* a batch is being processed while a new batch is pending for the same key
C3_Witness ==
    \E timer \in DOMAIN flushes :
        /\ flushes[timer].pc = "process"
        /\ flushes[timer].key \in DOMAIN batches

\* C3 as claimed: while a flush has not finished, no batch is pending for its key
C3_Original ==
    \A timer \in DOMAIN flushes :
        flushes[timer].pc = "process" => flushes[timer].key \notin DOMAIN batches

(***************************************************************************)
(* Histories of the worker.                                                 *)
(***************************************************************************)
HandledFrames == {handled[i].frame : i \in 1..Len(handled)}

\* the frame decodes to a payload the loop passes on
Decodable(frames) ==
    DecodeFrames(frames).raised = None /\ DecodeFrames(frames).payload # None

\* the frame the worker is still working on, if any
InProgress == IF w_pc \in {"decode", "handle"} THEN {Len(received)} ELSE {}

(***************************************************************************)
(* C6.  A handler exception is caught and the worker stays in its receive   *)
(* loop: the worker never exits on a frame it passed to the handler, and    *)
(* every frame it received that decodes to a payload is passed to the       *)
(* handler exactly once, whatever the handler raised for earlier frames.    *)
(***************************************************************************)
C6_HandlerErrorKeepsWorker ==
    /\ (w_pc = "exited" /\ ~stop_event) =>
           (received # <<>> /\ Len(received) \notin HandledFrames)
    /\ \A n \in 1..Len(received) :
           (Decodable(received[n]) /\ n \notin InProgress) =>
               Cardinality({i \in 1..Len(handled) : handled[i].frame = n}) = 1

\* the handler raised for a frame and a later frame was handled all the same
C6_Witness ==
    \E i, j \in 1..Len(handled) :
        /\ i < j
        /\ handled[i].outcome # "returned"
        /\ handled[j].outcome = "returned"
        /\ ~stop_event

(***************************************************************************)
(* C7 (as claimed).  A received frame that does not decode to a JSON object *)
(* (malformed JSON, bytes that are not UTF-8, a JSON value that is no       *)
(* object) is discarded: nothing is appended to the store for it, and the   *)
(* worker does not terminate because of it.                                 *)
(***************************************************************************)
C7_BadFrameDiscarded ==
    /\ \A i \in 1..Len(stored) :
           received[stored[i]].utf8 /\ received[stored[i]].json = "object"
    /\ w_pc = "exited" => stop_event

(***************************************************************************)
(* Histories of the hub.                                                    *)
(***************************************************************************)
HasSnapshot(ws) == \E i \in 1..Len(inbox[ws]) : inbox[ws][i].type = "snapshot"

TriedSinks(pass) == [i \in 1..Len(pass.tried) |-> pass.tried[i].ws]

C9_EveryTargetTried ==
    \A n \in DOMAIN passes :
        /\ passes[n].pc = "done" => TriedSinks(passes[n]) = passes[n].targets
        /\ passes[n].pc = "sending" =>
               /\ passes[n].idx <= Len(passes[n].targets)
               /\ TriedSinks(passes[n]) =
                      SubSeq(passes[n].targets, 1, passes[n].idx - 1)
        /\ \A i \in 1..Len(passes[n].tried) :
               passes[n].tried[i].ok =>
                   \E j \in 1..Len(inbox[passes[n].tried[i].ws]) :
                       inbox[passes[n].tried[i].ws][j] = Update(n)

\* a pass whose first send failed delivered the update to its second sink
C9_Witness ==
    \E n \in DOMAIN passes :
        /\ passes[n].pc = "done"
        /\ Len(passes[n].tried) = 2
        /\ ~passes[n].tried[1].ok
        /\ passes[n].tried[2].ok

(***************************************************************************)
(* C10.  A broadcast pass leaves the registry alone while it is iterating   *)
(* and, with its last send, removes exactly the sinks whose send failed     *)
(* during the pass: the sinks it delivered to stay registered.              *)
(***************************************************************************)
C10_StaleRemovedAfterPass ==
    [][\A n \in DOMAIN passes' :
          (n \notin DOMAIN passes \/ passes'[n] # passes[n]) =>
              IF n \in DOMAIN passes /\ passes'[n].pc = "done"
              THEN /\ \A ws \in Websockets :
                          InConnections(ws)' <=>
                              /\ InConnections(ws)
                              /\ \A i \in 1..Len(passes'[n].tried) :
                                     passes'[n].tried[i].ws = ws =>
                                         passes'[n].tried[i].ok
                   /\ connections' = Without(connections, passes'[n].stale)
              ELSE connections' = connections]_vars

\* a finished pass: the sink whose send failed is gone, the other one is kept
C10_Witness ==
    \E n \in DOMAIN passes :
        /\ passes[n].pc = "done"
        /\ Len(passes[n].tried) = 2
        /\ \E i, j \in 1..2 :
               /\ ~passes[n].tried[i].ok
               /\ ~InConnections(passes[n].tried[i].ws)
               /\ passes[n].tried[j].ok
               /\ InConnections(passes[n].tried[j].ws)

(***************************************************************************)
(* C11 (as amended).  A broadcast pass sends to the copy of the registry    *)
(* it took, under the lock, at the instant it started: the copy never       *)
(* changes, an update reaches only sinks of that copy, each at most once.   *)
(* Joins and leaves do take effect while the pass is sending: the pass      *)
(* still attempts the sinks that left meanwhile and skips those that        *)
(* joined.                                                                  *)
(***************************************************************************)
C11_PassSendsToItsCopy ==
    [][/\ \A n \in DOMAIN passes' \ DOMAIN passes :
              passes'[n].targets = connections
       /\ \A n \in DOMAIN passes :
              /\ n \in DOMAIN passes'
              /\ passes'[n].targets = passes[n].targets
       /\ \A n \in DOMAIN passes', ws \in Websockets :
              LET got == {i \in 1..Len(inbox'[ws]) : inbox'[ws][i] = Update(n)}
              IN /\ Cardinality(got) <= 1
                 /\ got # {} =>
                        \E j \in 1..Len(passes'[n].targets) :
                            passes'[n].targets[j] = ws]_vars

\* a pass is still sending, and a sink it already delivered to has left
C11_Witness ==
    \E n \in DOMAIN passes, ws \in Websockets :
        /\ passes[n].pc = "sending"
        /\ \E i \in 1..Len(passes[n].tried) :
               passes[n].tried[i].ws = ws /\ passes[n].tried[i].ok
        /\ HasSnapshot(ws)
        /\ ws_pc[ws] = "closed"
        /\ ~InConnections(ws)

\* C11 as claimed: no join or leave takes effect between the first and the
\* last send of a pass
C11_Original ==
    [][(/\ \E n \in DOMAIN passes :
               passes[n].pc = "sending" /\ Len(passes[n].tried) >= 1
        /\ passes' = passes)
           => connections' = connections]_vars

(***************************************************************************)
(* Histories of drain().                                                    *)
(***************************************************************************)
\* the processor invocations made for the batch armed with `timer`
InvocationsOf(timer) == {i \in 1..Len(processed) : processed[i].batch = timer}

\* the timer threads that hold the batch between their pop and their
\* processor call
FlushesHolding(timer) ==
    {f \in DOMAIN flushes :
        flushes[f].pc = "process" /\ flushes[f].batch.timer = timer}

(***************************************************************************)
(* C15.  drain() takes every pending batch out of the map, cancels its      *)
(* timer and hands it to the processor.  A batch that was pending when      *)
(* drain was called is processed exactly once, by drain or by its own       *)
(* timer's _flush (which then holds it until its processor call), never by  *)
(* both; and when drain has returned and no add came after the call, no     *)
(* batch is pending.                                                        *)
(***************************************************************************)
C15_DrainFlushesOnce ==
    /\ \A timer \in DOMAIN timers :
           /\ Cardinality(InvocationsOf(timer)) <= 1
           /\ InvocationsOf(timer) # {} => FlushesHolding(timer) = {}
    /\ drain.pc \in {"cancel", "process"} =>
           /\ InvocationsOf(drain.batch.timer) = {}
           /\ FlushesHolding(drain.batch.timer) = {}
           /\ \A key \in DOMAIN batches :
                  batches[key].timer # drain.batch.timer
    /\ drain.pc = "returned" =>
           /\ \A timer \in drain.pending :
                  /\ Cardinality(InvocationsOf(timer))
                         + Cardinality(FlushesHolding(timer)) = 1
                  /\ \A i \in InvocationsOf(timer) :
                         processed[i].by \in {DrainCaller, timer}
                  /\ FlushesHolding(timer) \subseteq {timer}
           /\ Len(accepted) = drain.accepted => DOMAIN batches = {}

\* drain has returned after it processed a batch whose timer had already
\* fired, and another batch whose timer it cancelled in time
C15_Witness ==
    /\ drain.pc = "returned"
    /\ \E i, j \in 1..Len(processed) :
           /\ processed[i].by = DrainCaller
           /\ processed[i].batch \in drain.pending
           /\ timers[processed[i].batch].state = "finished"
           /\ processed[j].by = DrainCaller
           /\ processed[j].batch \in drain.pending
           /\ timers[processed[j].batch].state = "cancelled"

(***************************************************************************)
(* Histories of the application.                                            *)
(***************************************************************************)
\* the publishes of the point appended as number i
PublishesOf(i) ==
    {j \in 1..Len(scheduled) :
        /\ scheduled[j].n = i
        /\ scheduled[j].scope = appended[i].scope
        /\ scheduled[j].key = appended[i].key
        /\ scheduled[j].point = appended[i].entry}

\* the handler that appended point i has not reached its _schedule call yet
AboutToPublish(i) ==
    \E s \in Subscribers : subs[s].pc = "schedule" /\ subs[s].message.n = i

(***************************************************************************)
(* C12 (as claimed).  While the delivery context is active, every point     *)
(* appended to the store by the pipeline (a throughput point, a non-trade   *)
(* integrity point, the aggregate point of a flushed trade batch) is        *)
(* followed by exactly one publish of an update with its key and a copy of  *)
(* the point.                                                               *)
(***************************************************************************)
C12_EveryPointPublished ==
    loop =>
        \A i \in 1..Len(appended) :
            IF AboutToPublish(i) THEN PublishesOf(i) = {}
            ELSE Cardinality(PublishesOf(i)) = 1

(***************************************************************************)
(* Histories of the concurrent store.                                       *)
(***************************************************************************)
\* the entries appended to the series `key` of `scope` among the first m
\* appends, in append order
HistoryUpTo(scope, key, m) ==
    LET hits == SelectSeq(SubSeq(appended, 1, m),
                          LAMBDA a : a.scope = scope /\ a.key = key)
    IN [i \in 1..Len(hits) |-> hits[i].entry]

KeysUpTo(scope, m) ==
    {appended[i].key : i \in {j \in 1..m : appended[j].scope = scope}}

\* the series are what the first m add_* calls, run one after another,
\* leave in the store
SeriesAreAt(xdp, integrity, m) ==
    /\ DOMAIN xdp = KeysUpTo("xdp", m)
    /\ DOMAIN integrity = KeysUpTo("integrity", m)
    /\ \A key \in DOMAIN xdp :
           xdp[key] = Suffix(HistoryUpTo("xdp", key, m), xdp_points)
    /\ \A key \in DOMAIN integrity :
           LET history == HistoryUpTo("integrity", key, m)
           IN integrity[key] =
                  Suffix(history,
                         IntegrityRetentionLimit(history[Len(history)].stream))

\* the ordinals of the entries a snapshot holds in its series
SnapshotHolds(snap) ==
    UNION {{snap.xdp[key][i].n : i \in 1..Len(snap.xdp[key])} :
              key \in DOMAIN snap.xdp}
    \cup UNION {{snap.integrity[key][i].n : i \in 1..Len(snap.integrity[key])} :
                   key \in DOMAIN snap.integrity}

(***************************************************************************)
(* C13.  The add_* calls of concurrent threads are linearized by the store  *)
(* lock: whenever the lock is free the series are what the appends made so  *)
(* far leave when run one after another (none lost, none half done), and    *)
(* every snapshot() shows the series as they were after some number m of    *)
(* whole add_* calls, m covering every call that had returned before the    *)
(* snapshot() call started.                                                 *)
(***************************************************************************)
C13_Linearized ==
    /\ lock = None =>
           SeriesAreAt(xdp_series, integrity_series, Len(appended))
    /\ \A i \in 1..Len(snaps) :
           \E m \in 0..Len(appended) :
               /\ \A n \in snaps[i].after : n <= m
               /\ SeriesAreAt(snaps[i].xdp, snaps[i].integrity, m)

\* snapshot() was called while an add held the lock, after another add had
\* returned: it shows a point of each, and an older point has been evicted
C13_Witness ==
    \E i \in 1..Len(snaps) :
        /\ snaps[i].busy \in Writers
        /\ snaps[i].after # {}
        /\ \E n \in SnapshotHolds(snaps[i]) : n \in snaps[i].after
        /\ \E n \in SnapshotHolds(snaps[i]) : n \notin snaps[i].after
        /\ \E n \in snaps[i].after : n \notin SnapshotHolds(snaps[i])

(***************************************************************************)
(* C14.  A failing integrity point enters its series and the alert log in   *)
(* one critical section: no snapshot() shows a failing point in its series  *)
(* without showing it in the alert log (unless the log's bound has evicted  *)
(* it), and none shows an alert that is not in its series unless the series *)
(* is full of newer points.                                                 *)
(***************************************************************************)
C14_AlertWithSeries ==
    \A i \in 1..Len(snaps) :
        LET snap == snaps[i]
            logged == {snap.alerts[j].n : j \in 1..Len(snap.alerts)}
        IN /\ \A key \in DOMAIN snap.integrity :
                  \A j \in 1..Len(snap.integrity[key]) :
                      LET entry == snap.integrity[key][j]
                      IN ~entry.is_ok =>
                             \/ entry.n \in logged
                             \/ /\ Len(snap.alerts) = AlertBound
                                /\ \A n \in logged : n > entry.n
           /\ \A j \in 1..Len(snap.alerts) :
                  LET alert == snap.alerts[j]
                  IN /\ ~alert.is_ok
                     /\ alert.key \in DOMAIN snap.integrity
                     /\ LET series == snap.integrity[alert.key]
                        IN \/ \E k \in 1..Len(series) : series[k] = alert
                           \/ /\ Len(series) =
                                     IntegrityRetentionLimit(alert.stream)
                              /\ \A k \in 1..Len(series) : series[k].n > alert.n

\* snapshot() was called while an add_integrity_payload call held the lock,
\* and shows the failing point of that call in its series and in the alerts
C14_Witness ==
    \E i \in 1..Len(snaps) :
        /\ snaps[i].busy \in Writers
        /\ \E key \in DOMAIN snaps[i].integrity :
               \E j \in 1..Len(snaps[i].integrity[key]) :
                   LET entry == snaps[i].integrity[key][j]
                   IN /\ ~entry.is_ok
                      /\ entry.n \notin snaps[i].after
                      /\ \E k \in 1..Len(snaps[i].alerts) :
                             snaps[i].alerts[k] = entry

(***************************************************************************)
(* Histories of the shutdown.                                               *)
(***************************************************************************)
\* the accepted payloads that a processor invocation has been handed
ProcessedPayloads ==
    UNION {{processed[i].payloads[j].n : j \in 1..Len(processed[i].payloads)} :
              i \in 1..Len(processed)}

\* the accepted payloads a timer thread holds between its pop and its
\* processor call
PayloadsInFlush ==
    UNION {{flushes[f].batch.payloads[j].n :
               j \in 1..Len(flushes[f].batch.payloads)} :
              f \in {g \in DOMAIN flushes : flushes[g].pc = "process"}}

\* the aggregate points in the store
BatchPoints ==
    {i \in 1..Len(appended) :
        /\ appended[i].scope = "integrity"
        /\ appended[i].entry.symbol = "__BATCH__"}

(***************************************************************************)
(* C16 (as claimed).  On shutdown no in-flight batch is dropped: drain()    *)
(* runs before the delivery context is cleared, and once _shutdown has      *)
(* finished no batch is pending and every trade payload the aggregator      *)
(* accepted has gone through the processor into the store.                  *)
(***************************************************************************)
C16_NothingPendingAfterShutdown ==
    /\ ~loop => drain.pc = "returned"
    /\ shutdown_pc.at = "done" =>
           /\ DOMAIN batches = {}
           /\ \A n \in 1..Len(accepted) :
                  n \in ProcessedPayloads \cup PayloadsInFlush
           /\ Cardinality(BatchPoints) = Len(processed)

(***************************************************************************)
(* C17.  _shutdown always finishes: once started it sets the stop flag of   *)
(* every subscriber, waits for each only until join's timeout, drains and   *)
(* clears the loop, whether or not the subscriber threads ever exit.  None  *)
(* of the waits is over before every stop flag is set.                      *)
(***************************************************************************)
C17_ShutdownTerminates ==
    /\ (shutdown_pc.at # "running") ~> (shutdown_pc.at = "done")
    /\ [](shutdown_pc.at \in {"join", "drain", "draining", "done"} =>
              \A s \in Subscribers : subs[s].stop_event)

\* _shutdown has finished and left behind a subscriber thread that is still
\* inside its handler
C17_Witness ==
    /\ shutdown_pc.at = "done"
    /\ \E s \in Subscribers : subs[s].stop_event /\ subs[s].pc = "handle"

(***************************************************************************)
(* C18.  Once stop() has been called the worker thread leaves its loop and  *)
(* exits, whatever it was doing: the loop test sees the stop event, or the  *)
(* closed socket makes poll or recv_multipart raise.  A thread that has     *)
(* left the loop handles and receives nothing more.                         *)
(***************************************************************************)
C18_StopExits ==
    /\ stop_event ~> (w_pc = "exited")
    /\ [][w_pc = "exited" =>
              /\ w_pc' = "exited"
              /\ handled' = handled
              /\ received' = received]_vars

\* the worker handled a message, nothing it received made it leave, and it
\* has exited after stop()
C18_Witness ==
    /\ stop_event
    /\ w_pc = "exited"
    /\ Len(handled) >= 1
    /\ \A i \in 1..Len(received) : DecodeFrames(received[i]).raised = None

\* the received frames that carry a message: those _decode_frames turns into
\* a payload
Messages ==
    {i \in 1..Len(received) :
        /\ DecodeFrames(received[i]).raised = None
        /\ DecodeFrames(received[i]).payload # None}

\* the frame the worker holds and has not passed to the handler yet
InHand == IF w_pc \in {"decode", "handle"} THEN {Len(received)} ELSE {}

(***************************************************************************)
(* C19.  The handler calls of one worker are for the messages in the order  *)
(* their frames were received, each message once, and a message is received *)
(* only after the handler call for every earlier message has ended: the     *)
(* frames handled so far are, in increasing order, all the messages but the *)
(* one in hand.                                                             *)
(***************************************************************************)
C19_HandledInArrivalOrder ==
    /\ \A j, k \in 1..Len(handled) : j < k => handled[j].frame < handled[k].frame
    /\ {handled[k].frame : k \in 1..Len(handled)} = Messages \ InHand

\* two messages handled with a frame that carries none between them
C19_Witness ==
    /\ Len(handled) = 2
    /\ handled[1].frame = 1
    /\ handled[2].frame = 3
    /\ handled[1].outcome # "returned"

\* the points of a series are in non-decreasing order of timestamp
TimeOrdered(series) ==
    \A j, k \in 1..Len(series) :
        j < k => series[j].timestamp <= series[k].timestamp

(***************************************************************************)
(* C20.  Every series, throughput or integrity, holds its points in         *)
(* non-decreasing order of timestamp.                                       *)
(***************************************************************************)
C20_SeriesTimeOrdered ==
    /\ \A key \in DOMAIN xdp_series : TimeOrdered(xdp_series[key])
    /\ \A key \in DOMAIN integrity_series : TimeOrdered(integrity_series[key])

\* the integrity points the store retains
RetainedIntegrity ==
    UNION {{integrity_series[key][i] : i \in 1..Len(integrity_series[key])} :
              key \in DOMAIN integrity_series}

\* the point has the value of every filter that was given
Satisfies(point, filters) ==
    /\ filters.exchange \in {None, "", point.exchange}
    /\ filters.symbol \in {None, "", point.symbol}
    /\ filters.hostname \in {None, "", point.hostname}
    /\ filters.interface \in {None, "", point.interface}
    /\ filters.type_filter \in {None, "", point.type}
    /\ filters.stage \in {None, "", point.stage}

(***************************************************************************)
(* C21.  integrity_series returns retained points that satisfy every given  *)
(* filter, each once, in ascending order of timestamp: all of them when no  *)
(* positive limit is given or no more than the limit satisfy the filters,   *)
(* otherwise the limit most recent of them.                                 *)
(***************************************************************************)
C21_QueryFiltersThenLimits ==
    answer.op = "integrity_series" =>
        LET value == answer.value
            matching == {point \in RetainedIntegrity :
                            Satisfies(point, answer.filters)}
            returned_points == {value[i] : i \in 1..Len(value)}
        IN /\ returned_points \subseteq matching
           /\ Cardinality(returned_points) = Len(value)
           /\ Len(value) =
                  IF answer.limit > 0 /\ Cardinality(matching) > answer.limit
                  THEN answer.limit ELSE Cardinality(matching)
           /\ \A i, j \in 1..Len(value) :
                  i < j => value[i].timestamp <= value[j].timestamp
           /\ \A point \in matching \ returned_points :
                  \A i \in 1..Len(value) : point.timestamp <= value[i].timestamp

\* a call with an exchange filter and a limit, over more matching points than
\* the limit and a retained point of another exchange
C21_Witness ==
    /\ answer.op = "integrity_series"
    /\ answer.filters.exchange = "ex"
    /\ answer.limit > 0
    /\ Cardinality({point \in RetainedIntegrity : point.exchange = "ex"})
           > answer.limit
    /\ \E point \in RetainedIntegrity : point.exchange # "ex"

\* the components as the key compares them: stream, exchange, stage and type
\* without regard to case
EffectiveComponents(c) ==
    <<Lower(c.source), c.hostname, c.interface, Lower(c.exchange),
      Lower(c.stage), Lower(c.type)>>

(***************************************************************************)
(* C22.  Two integrity payloads that differ in symbol get the same key      *)
(* exactly when their stream, hostname, interface, exchange, stage and type *)
(* are the same, the case of stream, exchange, stage and type set aside.    *)
(***************************************************************************)
C22_SameKeyIffSameComponents ==
    answer.op = "keys" =>
        (answer.value[1] = answer.value[2]
            <=> EffectiveComponents(answer.a) = EffectiveComponents(answer.b))

\* (what does hold) payloads with the same components share a key
C22_SameComponentsSameKey ==
    answer.op = "keys" =>
        (EffectiveComponents(answer.a) = EffectiveComponents(answer.b)
            => answer.value[1] = answer.value[2])

(***************************************************************************)
(* C23.  The point add_integrity_payload builds has is_ok true exactly when *)
(* its status is "ok" if the status is not empty, and exactly when it has   *)
(* no failed symbols and no failed requests if the status is empty; and so  *)
(* for the status the payload came with, lower-cased.                       *)
(***************************************************************************)
C23_IsOkRule ==
    (answer.op = "add_integrity_payload" /\ "payload" \in DOMAIN answer) =>
        LET point == answer.value
            none_failed == /\ point.failed_symbols = <<>>
                           /\ point.failed_requests = <<>>
        IN /\ point.status # "" => (point.is_ok <=> point.status = "ok")
           /\ point.status = "" => (point.is_ok <=> none_failed)
           /\ Lower(answer.payload.status) # ""
                  => (point.is_ok <=> Lower(answer.payload.status) = "ok")
           /\ Lower(answer.payload.status) = "" => (point.is_ok <=> none_failed)

\* a payload without status whose results hold a failed request only: the
\* point is not ok
C23_Witness ==
    /\ answer.op = "add_integrity_payload" /\ "payload" \in DOMAIN answer
    /\ answer.payload.status = ""
    /\ answer.value.failed_symbols = <<>>
    /\ answer.value.failed_requests # <<>>
    /\ ~answer.value.is_ok

\* the aggregate points in the store, in the order they were appended
BatchPointSeq ==
    SelectSeq([i \in 1..Len(appended) |-> appended[i]],
              LAMBDA a : a.scope = "integrity" /\ a.entry.symbol = "__BATCH__")

\* the point carries the batch marker, the size, the number of failures and
\* the items of a batch
CarriesBatch(point, size, failures) ==
    \/ /\ {"batch", "batch_size", "batch_failures", "batch_items"}
              \subseteq DOMAIN point
       /\ point.batch
       /\ point.batch_size = size
       /\ point.batch_failures = failures
       /\ Len(point.batch_items) = size
    \/ /\ {"trade_batch", "trade_batch_size", "trade_batch_failures",
           "trade_batch_items"} \subseteq DOMAIN point
       /\ point.trade_batch
       /\ point.trade_batch_size = size
       /\ point.trade_batch_failures = failures
       /\ Len(point.trade_batch_items) = size

\* the payloads of a batch whose status is not ok
FailuresIn(payloads) ==
    Cardinality({k \in 1..Len(payloads) : Lower(payloads[k].status) # "ok"})

(***************************************************************************)
(* C24 (as claimed).  Every flush of a trade batch puts exactly one point   *)
(* into the store, and that point carries the batch marker, the size of the *)
(* batch, the number of its items that are not ok, and the items.           *)
(***************************************************************************)
C24_FlushStoresBatchPoint ==
    /\ Len(BatchPointSeq) = Len(processed)
    /\ \A k \in 1..Len(BatchPointSeq) :
           CarriesBatch(BatchPointSeq[k].entry, Len(processed[k].payloads),
                        FailuresIn(processed[k].payloads))

\* (what does hold) one aggregate point per flush, of type trade, with the
\* status of the batch
C24_OnePointPerFlush ==
    /\ Len(BatchPointSeq) = Len(processed)
    /\ \A k \in 1..Len(BatchPointSeq) :
           /\ BatchPointSeq[k].entry.type = "trade"
           /\ BatchPointSeq[k].entry.is_ok
                  <=> FailuresIn(processed[k].payloads) = 0

(***************************************************************************)
(* C30.  A trade event goes to the aggregator and not to the store: the     *)
(* step in which add() accepts it appends nothing to any series, the only   *)
(* integrity points of type trade in the store are aggregate points, and    *)
(* there is one of them for every flush.                                    *)
(***************************************************************************)
C30_TradeEventsOnlyAggregated ==
    /\ [](/\ \A i \in 1..Len(appended) :
                (appended[i].scope = "integrity"
                     /\ appended[i].entry.type = "trade")
                    => appended[i].entry.symbol = "__BATCH__"
          /\ Len(BatchPointSeq) = Len(processed))
    /\ [][accepted' # accepted => appended' = appended]_vars

\* a trade event was accepted, its batch flushed, and the store holds the
\* aggregate point and nothing else
C30_Witness ==
    /\ Len(accepted) = 1
    /\ Len(processed) = 1
    /\ Len(appended) = 1
    /\ appended[1].entry.symbol = "__BATCH__"

\* the throughput points the store retains
RetainedXdp ==
    UNION {{xdp_series[key][i] : i \in 1..Len(xdp_series[key])} :
              key \in DOMAIN xdp_series}

(***************************************************************************)
(* C25 (as claimed).  latest_xdp_entry returns None when no throughput      *)
(* point is retained, and otherwise a retained point whose timestamp is the *)
(* largest of all retained throughput points.                               *)
(***************************************************************************)
C25_LatestIsMaximum ==
    answer.op = "latest_xdp_entry" =>
        IF RetainedXdp = {} THEN answer.value = <<>>
        ELSE /\ Len(answer.value) = 1
             /\ answer.value[1].entry \in RetainedXdp
             /\ \A point \in RetainedXdp :
                    point.timestamp <= answer.value[1].entry.timestamp

\* (what does hold) the newest point of some series, with the largest
\* timestamp among the newest points of the series
C25_LatestOfLastPoints ==
    answer.op = "latest_xdp_entry" =>
        IF RetainedXdp = {} THEN answer.value = <<>>
        ELSE /\ Len(answer.value) = 1
             /\ \E key \in DOMAIN xdp_series :
                    /\ answer.value[1].key = key
                    /\ answer.value[1].entry = xdp_series[key][Len(xdp_series[key])]
             /\ \A key \in DOMAIN xdp_series :
                    xdp_series[key][Len(xdp_series[key])].timestamp
                        <= answer.value[1].entry.timestamp

(***************************************************************************)
(* C27.  What snapshot() returned stays as it was returned: whatever is     *)
(* added to the store afterwards, every series list and the alert list of   *)
(* the held snapshot read as the series and the alerts did when snapshot()  *)
(* ran, and no series joins or leaves it.                                   *)
(***************************************************************************)
C27_SnapshotIndependent ==
    held.op = "snapshot" =>
        /\ DOMAIN held.value.xdp = DOMAIN held.xdp
        /\ DOMAIN held.value.integrity = DOMAIN held.integrity
        /\ \A key \in DOMAIN held.xdp :
               ReadList(held.value.xdp[key]) = held.xdp[key]
        /\ \A key \in DOMAIN held.integrity :
               ReadList(held.value.integrity[key]) = held.integrity[key]
        /\ ReadList(held.value.alerts) = held.alerts

\* after the snapshot a full throughput series in it took a point and lost
\* its oldest one
C27_Witness ==
    /\ held.op = "snapshot"
    /\ \E key \in DOMAIN held.xdp :
           /\ Len(held.xdp[key]) = xdp_points
           /\ xdp_series[key][1] # held.xdp[key][1]
           /\ ReadList(held.value.xdp[key])[1] = held.xdp[key][1]

\* the field is missing or is no number
Unparseable(field) == field.kind \in {"none", "text"}

(***************************************************************************)
(* C26 (as claimed).  add_xdp_payload raises for no payload; a numeric      *)
(* field that is missing or is no number counts as 0, and the point         *)
(* returned has avg_bps >= 0 and max_bps >= 0.                              *)
(***************************************************************************)
C26_AddXdpNeverRaises ==
    (answer.op = "add_xdp_payload" /\ "raw" \in DOMAIN answer) =>
        /\ answer.raised = None
        /\ answer.value[2].avg_bps >= 0
        /\ answer.value[2].max_bps >= 0
        /\ Unparseable(answer.raw.metrics.bps_avg) => answer.value[2].avg_bps = 0
        /\ Unparseable(answer.raw.metrics.bps_max) => answer.value[2].max_bps = 0

\* (what does hold) when the metrics are a dict and every number present is
\* finite and the timestamp a date, nothing is raised and missing or
\* unparseable fields count as 0
C26_DefaultsWhenNothingRaised ==
    (answer.op = "add_xdp_payload" /\ "raw" \in DOMAIN answer) =>
        /\ answer.raised = None <=>
               /\ answer.raw.metrics.kind = "dict"
               /\ answer.raw.timestamp.kind \notin {"huge", "late"}
               /\ answer.raw.metrics.bps_avg.kind # "huge"
        /\ answer.raised = None =>
               /\ Unparseable(answer.raw.metrics.bps_avg)
                      => answer.value[2].avg_bps = 0
               /\ Unparseable(answer.raw.metrics.bps_max)
                      => answer.value[2].max_bps = 0

(***************************************************************************)
(* C28.  The batch timer is a fixed window.  A timer is armed only by the   *)
(* add that creates a pending batch, and it is armed at the time of that    *)
(* add; an add that joins a pending batch appends its payload and leaves    *)
(* every timer as it was.  The start of a timer never changes, so its       *)
(* function runs when delay_seconds have passed since the first add of its  *)
(* batch, and not earlier, whatever arrives meanwhile.                      *)
(***************************************************************************)
C28_FixedWindow ==
    /\ [](\A timer \in DOMAIN timers :
             timers[timer].started = FirstAddedAt(timer))
    /\ [][/\ accepted' # accepted =>
               LET a == accepted'[Len(accepted')]
               IN IF a.key \in DOMAIN batches
                  THEN /\ timers' = timers
                       /\ a.timer = batches[a.key].timer
                       /\ batches'[a.key].payloads =
                              Append(batches[a.key].payloads,
                                     batches'[a.key].payloads[
                                         Len(batches'[a.key].payloads)])
                  ELSE /\ a.timer \notin DOMAIN timers
                       /\ DOMAIN timers' = DOMAIN timers \cup {a.timer}
                       /\ timers'[a.timer].started = now
                       /\ timers'[a.timer].state = "waiting"
                       /\ \A timer \in DOMAIN timers :
                              timers'[timer] = timers[timer]
           /\ accepted' = accepted => DOMAIN timers' = DOMAIN timers
           /\ \A timer \in DOMAIN timers :
                  /\ timers'[timer].started = timers[timer].started
                  /\ (timers[timer].state = "waiting"
                         /\ timers'[timer].state = "running") =>
                         now >= FirstAddedAt(timer) + DelayTicks]_vars

\* a batch whose second payload arrived later than its first was handed to
\* the processor exactly delay_seconds after the first add
C28_Witness ==
    \E i \in 1..Len(processed) :
        /\ processed[i].by = processed[i].batch
        /\ Len(processed[i].payloads) >= 2
        /\ processed[i].at = FirstAddedAt(processed[i].batch) + DelayTicks
        /\ \E a \in 1..Len(accepted) :
               /\ accepted[a].timer = processed[i].batch
               /\ accepted[a].at > FirstAddedAt(processed[i].batch)

\* the processor calls made by timer threads that raised
RaisedFlushes ==
    {i \in 1..Len(processed) :
        processed[i].raised /\ processed[i].by # DrainCaller}

(***************************************************************************)
(* C29.  When the processor raises during a timer-driven flush, _flush      *)
(* catches the exception: the timer thread ends as it does after a call     *)
(* that returned.  The batch stays removed: it is not pending again, none   *)
(* of its payloads is handed to the processor a second time, and an add     *)
(* for the same key that comes later starts a fresh batch with a timer of   *)
(* its own.                                                                 *)
(***************************************************************************)
C29_RaisedFlushNotRetried ==
    \A i \in RaisedFlushes :
        LET call == processed[i]
        IN /\ timers[call.by].state = "finished"
           /\ call.by \notin DOMAIN flushes
           /\ \A key \in DOMAIN batches :
                  /\ batches[key].timer # call.batch
                  /\ \A p \in 1..Len(batches[key].payloads) :
                         \A q \in 1..Len(call.payloads) :
                             batches[key].payloads[p].n # call.payloads[q].n
           /\ \A j \in 1..Len(processed) :
                  j # i =>
                      \A p \in 1..Len(processed[j].payloads) :
                          \A q \in 1..Len(call.payloads) :
                              processed[j].payloads[p].n # call.payloads[q].n
           /\ \A a \in 1..Len(accepted) :
                  (/\ accepted[a].key = call.key
                   /\ \A q \in 1..Len(call.payloads) :
                          accepted[a].n > call.payloads[q].n) =>
                      /\ accepted[a].timer # call.batch
                      /\ accepted[a].timer \in DOMAIN timers
                      /\ timers[accepted[a].timer].started >=
                             FirstAddedAt(call.batch) + DelayTicks
                      /\ timers[accepted[a].timer].state = "finished" =>
                             Cardinality(InvocationsFor(accepted[a].timer)) = 1

\* the processor raised for a batch, and the batch a later add started for
\* the same key was flushed by its own timer with a processor that returned
C29_Witness ==
    \E i \in RaisedFlushes :
        \E j \in 1..Len(processed) :
            /\ j > i
            /\ processed[j].key = processed[i].key
            /\ processed[j].batch # processed[i].batch
            /\ processed[j].by = processed[j].batch
            /\ ~processed[j].raised
            /\ timers[processed[j].by].state = "finished"

\* every item of the batch has, lower-cased as _process_trade_batch reads
\* it, the status "ok"
AllItemsOk(payloads) ==
    \A i \in 1..Len(payloads) : Lower(payloads[i].status) = "ok"

(***************************************************************************)
(* C31.  The aggregate a flush stores has status "ok", is_ok true and no    *)
(* alert if and only if every item of the batch has status "ok" (read as    *)
(* the normalized item record has it: lower-cased, a missing status is "").  *)
(* If any item's status is not "ok", the aggregate has status "error", is   *)
(* not ok, and is filed in the alert log.  Either way it is appended to its *)
(* series.                                                                  *)
(***************************************************************************)
C31_AggregateOkIffAllOk ==
    answer.op = "process_trade_batch" =>
        LET entry == appended[Len(appended)].entry
            all_ok == AllItemsOk(answer.payloads)
            alerted == \E a \in 1..Len(alerts) : alerts[a].n = entry.n
            series == integrity_series[entry.key]
        IN /\ Len(appended) = 1
           /\ series[Len(series)] = entry
           /\ entry.symbol = "__BATCH__"
           /\ entry.status = "ok" <=> all_ok
           /\ entry.is_ok <=> all_ok
           /\ alerted <=> ~all_ok
           /\ ~all_ok => entry.status = "error"

\* a batch of three whose first item is "OK", whose second failed and whose
\* third is "ok" was flushed: its aggregate is in the alert log
C31_Witness ==
    /\ answer.op = "process_trade_batch"
    /\ Len(answer.payloads) = 3
    /\ answer.payloads[1].status = "OK"
    /\ answer.payloads[2].status = "fail"
    /\ answer.payloads[3].status = "ok"
    /\ Len(alerts) = 1
    /\ alerts[1].status = "error"

\* a batch whose items are "OK" and "ok" was flushed: nothing is alerted
C31_WitnessOk ==
    /\ answer.op = "process_trade_batch"
    /\ Len(answer.payloads) = 2
    /\ answer.payloads[1].status = "OK"
    /\ answer.payloads[2].status = "ok"
    /\ alerts = <<>>
    /\ appended[1].entry.is_ok

\* the update of pass k is in the inbox of ws
Received(ws, k) ==
    \E j \in 1..Len(inbox[ws]) : inbox[ws][j] = Update(k)

(***************************************************************************)
(* C32.  hub.broadcast never runs in place on a subscriber thread or a      *)
(* timer thread.  A step of such a thread (one that moves a subscriber,     *)
(* a timer or a flush, or that changes the store, the processor log or the  *)
(* queue of the loop) leaves the hub's registry, its passes and every       *)
(* sink's inbox as they were; a handler that reaches _schedule while the    *)
(* loop reference is set appends its message to the loop's queue; and       *)
(* every pass is the pass of a message that was queued.                     *)
(***************************************************************************)
C32_PublishOnlyOnLoop ==
    /\ [](Cardinality(DOMAIN passes) <= Len(scheduled))
    /\ [][/\ (\/ subs' # subs \/ timers' # timers \/ flushes' # flushes
               \/ appended' # appended \/ processed' # processed
               \/ scheduled' # scheduled \/ batches' # batches) =>
                  UNCHANGED <<connections, passes, inbox>>
           /\ \A s \in Subscribers :
                  (subs[s].pc = "schedule" /\ subs'[s].pc # "schedule"
                     /\ loop) =>
                      scheduled' = Append(scheduled, subs[s].message)]_vars

\* a point a subscriber thread stored was queued and then sent to a sink by
\* a pass of the loop
C32_Witness ==
    \E k \in DOMAIN passes, ws \in DeliverSinks :
        /\ Received(ws, k)
        /\ scheduled[k].scope = "xdp"
        /\ appended[scheduled[k].n].entry = scheduled[k].point

Holds(payloads, n) ==
    \E p \in 1..Len(payloads) : payloads[p].n = n

\* where the payload with arrival number n is: the pending batches, the
\* batches a _flush or drain holds for its processor call, and the
\* processor calls made that have it
PendingPlaces(n) ==
    {key \in DOMAIN batches : Holds(batches[key].payloads, n)}

FlushPlaces(n) ==
    {f \in DOMAIN flushes :
        flushes[f].pc = "process" /\ Holds(flushes[f].batch.payloads, n)}

DrainPlaces(n) ==
    IF drain.pc \in {"cancel", "process"} /\ Holds(drain.batch.payloads, n)
    THEN {DrainCaller} ELSE {}

ProcessedPlaces(n) ==
    {i \in 1..Len(processed) : Holds(processed[i].payloads, n)}

\* the payload lists that exist: pending, held and processed
PayloadLists ==
    {batches[key].payloads : key \in DOMAIN batches}
    \cup {flushes[f].batch.payloads :
             f \in {g \in DOMAIN flushes : flushes[g].pc = "process"}}
    \cup (IF drain.pc \in {"cancel", "process"}
          THEN {drain.batch.payloads} ELSE {})
    \cup {processed[i].payloads : i \in 1..Len(processed)}

(***************************************************************************)
(* C35.  Payload conservation in the aggregator.  Under every interleaving  *)
(* of add calls, timer-driven flushes and drain, a payload that add         *)
(* accepted is in exactly one place: in one pending batch, or in the batch  *)
(* a _flush or drain has popped and is about to hand to the processor, or   *)
(* in one processor call; it is never in two and never in none.  So it is   *)
(* passed to the processor at most once, and exactly once when no batch is  *)
(* pending or held.  Every payload list holds payloads of one key in the    *)
(* order in which they were added, and a processor call gets all payloads   *)
(* that were accepted into its batch.                                       *)
(***************************************************************************)
C35_PayloadConservation ==
    /\ \A n \in 1..Len(accepted) :
           /\ Cardinality(PendingPlaces(n)) + Cardinality(FlushPlaces(n))
                  + Cardinality(DrainPlaces(n))
                  + Cardinality(ProcessedPlaces(n)) = 1
           /\ (DOMAIN batches = {} /\ FlushPlaces(n) = {} /\ DrainPlaces(n) = {})
                  => Cardinality(ProcessedPlaces(n)) = 1
    /\ \A payloads \in PayloadLists :
           /\ payloads # <<>>
           /\ \A p, q \in 1..Len(payloads) :
                  /\ accepted[payloads[p].n].key = accepted[payloads[q].n].key
                  /\ p < q => payloads[p].n < payloads[q].n
    /\ \A i \in 1..Len(processed) :
           PayloadNumbers(processed[i].payloads) = AcceptedInto(processed[i].batch)

\* two payloads of one key went to the processor in one call made by drain,
\* in the order they were added, and nothing is pending or held
C35_Witness ==
    /\ DOMAIN batches = {}
    /\ \A f \in DOMAIN flushes : flushes[f].pc # "process"
    /\ drain.pc = "returned"
    /\ Len(accepted) = 2
    /\ \E i \in 1..Len(processed) :
           /\ processed[i].by = DrainCaller
           /\ PayloadNumbers(processed[i].payloads) = <<1, 2>>

\* one payload went to the processor through its timer's _flush and another,
\* of another key, through drain
C35_WitnessBoth ==
    /\ Len(processed) = 2
    /\ processed[1].by # DrainCaller
    /\ processed[2].by = DrainCaller
    /\ DOMAIN batches = {}

\* nothing is in flight: the delivery context is active and no shutdown has
\* begun, no handler is between its store call and _schedule, and every
\* queued message has had its pass, which has finished
Settled ==
    /\ loop
    /\ shutdown_pc.at = "running"
    /\ \A s \in Subscribers : subs[s].pc = "idle"
    /\ Cardinality(DOMAIN passes) = Len(scheduled)
    /\ \A k \in DOMAIN passes : passes[k].pc = "done"

\* the sink has joined, is registered, and no send to it has failed
JoinedAndHealthy(ws) ==
    /\ ws \in DOMAIN held
    /\ ws_pc[ws] = "open"
    /\ InConnections(ws)
    /\ \A k \in DOMAIN passes :
           \A j \in 1..Len(passes[k].tried) :
               passes[k].tried[j].ws = ws => passes[k].tried[j].ok

\* the throughput points appended after the snapshot taken for the sink
AfterSnapshot(ws) ==
    {i \in 1..Len(appended) : i > held[ws].at /\ appended[i].scope = "xdp"}

\* point i was sent to the sink as an update
DeliveredTo(ws, i) ==
    \E k \in DOMAIN passes : scheduled[k].n = i /\ Received(ws, k)

(***************************************************************************)
(* C36 (as claimed, for throughput points).  A sink that joins misses no    *)
(* update: once nothing is in flight, every throughput point appended after *)
(* the snapshot handed to join was taken has been delivered to the sink as  *)
(* an update, provided the sink is still registered and no send to it       *)
(* failed.                                                                  *)
(***************************************************************************)
C36_JoinedSinkMissesNothing ==
    \A ws \in DeliverSinks :
        (Settled /\ JoinedAndHealthy(ws)) =>
            \A i \in AfterSnapshot(ws) : DeliveredTo(ws, i)

\* (what does hold) a joined and healthy sink has received the update of
\* every finished pass that started after the sink was registered, that is,
\* of every pass that has the sink among its targets; the point of a pass
\* that started between the snapshot and the registration is in neither
C36_DeliveredOncePerPassAfterJoin ==
    \A ws \in DeliverSinks :
        JoinedAndHealthy(ws) =>
            \A k \in DOMAIN passes :
                /\ (passes[k].pc = "done"
                      /\ \E j \in 1..Len(passes[k].targets) :
                             passes[k].targets[j] = ws) => Received(ws, k)
                /\ Received(ws, k) =>
                       \E j \in 1..Len(passes[k].targets) :
                           passes[k].targets[j] = ws

\* a throughput point was stored after the snapshot was taken and its pass
\* ran before hub.add had registered the sink: the point is neither in the
\* snapshot nor in an update the sink received
C36_MissedBetweenSnapshotAndJoin ==
    \E ws \in DeliverSinks :
        /\ Settled /\ JoinedAndHealthy(ws)
        /\ \E i \in AfterSnapshot(ws) :
               /\ ~DeliveredTo(ws, i)
               /\ \E k \in DOMAIN passes :
                      scheduled[k].n = i /\ passes[k].targets = <<>>
               /\ DOMAIN held[ws].value.xdp = {}

\* the pass numbers of the updates in the sink's inbox, in the order they
\* were received; passes start in the order their messages were scheduled
UpdatesReceived(ws) ==
    LET updates == SelectSeq(inbox[ws], LAMBDA m : m.type = "update")
    IN [j \in 1..Len(updates) |-> updates[j].n]

(***************************************************************************)
(* C37 (as claimed).  Every sink receives updates in the order in which     *)
(* they were scheduled: when update A was scheduled before update B, no     *)
(* sink receives B before A, also when the passes overlap because a send    *)
(* suspends.                                                                *)
(***************************************************************************)
C37_DeliveredInScheduleOrder ==
    \A ws \in Websockets :
        \A a, b \in 1..Len(UpdatesReceived(ws)) :
            a < b => UpdatesReceived(ws)[a] < UpdatesReceived(ws)[b]

\* the first pass was suspended in its send to ws1 when ws1 left; the
\* second pass, started then, had only ws2 to send to and reached it before
\* the first pass did
C37_OvertakenAfterLeave ==
    /\ 2 \in DOMAIN passes
    /\ passes[1].targets = <<"ws1", "ws2">>
    /\ passes[2].targets = <<"ws2">>
    /\ passes[1].tried = <<[ws |-> "ws1", ok |-> FALSE],
                           [ws |-> "ws2", ok |-> TRUE]>>
    /\ UpdatesReceived("ws2") = <<2, 1>>
    /\ UpdatesReceived("ws1") = <<>>

\* (what does hold) a sink receives the update of a pass at most once
C37_EachUpdateOnce ==
    \A ws \in Websockets :
        \A a, b \in 1..Len(UpdatesReceived(ws)) :
            a # b => UpdatesReceived(ws)[a] # UpdatesReceived(ws)[b]

\* the bound written out: the stream's override if it has one, else the
\* global bound
BoundOf(retention, stream) ==
    IF stream \in DOMAIN retention THEN retention[stream] ELSE integrity_points

(***************************************************************************)
(* C38.  set_integrity_retention(stream, n) with a positive integer n makes *)
(* n the bound of the stream; with None, a non-positive or an unparseable   *)
(* value it removes the stream's override, so that the global bound         *)
(* applies.  Other streams keep their bound, and the call changes no series *)
(* and no alert.  An add of a stream trims the series it appends to, and    *)
(* no other, to the bound the stream has at that time.  So after a bound    *)
(* was lowered a series may hold more points than its stream's bound until  *)
(* the stream adds to it again.                                             *)
(***************************************************************************)
C38_RetentionSetter ==
    /\ [][(answer' # answer /\ answer'.op = "set_integrity_retention") =>
             LET stream == answer'.stream
                 points == answer'.points
             IN /\ UNCHANGED <<integrity_series, xdp_series, alerts, appended>>
                /\ IF points.kind = "num" /\ points.v > 0
                   THEN BoundOf(integrity_retention', stream) = points.v
                   ELSE /\ stream \notin DOMAIN integrity_retention'
                        /\ BoundOf(integrity_retention', stream) = integrity_points
                /\ \A other \in RetentionStreams \ {stream} :
                       BoundOf(integrity_retention', other)
                           = BoundOf(integrity_retention, other)]_vars
    /\ [][appended' # appended =>
             LET added == appended'[Len(appended')]
                 bound == BoundOf(integrity_retention, added.entry.stream)
                 before == Get(integrity_series, added.key, <<>>)
             IN /\ integrity_retention' = integrity_retention
                /\ integrity_series'[added.key] =
                       PopLeftWhileOver(Append(before, added.entry), bound)
                /\ Len(integrity_series'[added.key]) <= bound
                /\ \A key \in DOMAIN integrity_series \ {added.key} :
                       integrity_series'[key] = integrity_series[key]]_vars
    /\ [](\A stream \in DOMAIN integrity_retention :
             integrity_retention[stream] > 0)

\* the bound of s1 was just lowered to 1 and its series still holds 2 points
C38_Witness ==
    /\ answer.op = "set_integrity_retention"
    /\ answer.stream = "s1"
    /\ answer.points = Number(1)
    /\ BoundOf(integrity_retention, "s1") = 1
    /\ \E key \in DOMAIN integrity_series :
           /\ Len(integrity_series[key]) = 2
           /\ \A p \in 1..2 : integrity_series[key][p].stream = "s1"

\* the next add of s1 to that series has trimmed it to the lowered bound
C38_WitnessTrimmed ==
    /\ answer.op = "add_integrity_payload"
    /\ answer.stream = "s1"
    /\ Len(appended) = 3
    /\ BoundOf(integrity_retention, "s1") = 1
    /\ \E key \in DOMAIN integrity_series :
           /\ integrity_series[key] = <<appended[3].entry>>
           /\ appended[1].key = key /\ appended[2].key = key

\* whether a stream configures the tag
Configured(tag) == tag \notin {None, ""}

(***************************************************************************)
(* C39.  The point stored for an event of a stream that configures a        *)
(* non-empty hostname (interface) carries the configured value as its       *)
(* hostname (interface) and has it in its key, whatever the event carries.  *)
(* When the stream configures none, the point carries the hostname          *)
(* (interface) of the payload handed to the store: the event's own, or for  *)
(* a trade event that of the aggregate, which has none.                     *)
(***************************************************************************)
C39_ConfiguredTagWins ==
    answer.op = "handle_integrity" =>
        LET cfg == answer.stream_cfg
            payload == answer.payload
            entry == answer.value
            is_trade == Lower(payload.type) = "trade"
            carried_host == IF is_trade THEN "" ELSE payload.hostname
            carried_iface == IF is_trade THEN "" ELSE payload.interface
            host == IF Configured(cfg.hostname)
                    THEN cfg.hostname ELSE carried_host
            iface == IF Configured(cfg.interface)
                     THEN cfg.interface ELSE carried_iface
        IN /\ entry.hostname = host
           /\ entry.interface = iface
           /\ entry.key =
                  Join(<<"s1">>
                       \o (IF host # "" THEN <<host>> ELSE <<>>)
                       \o (IF iface # "" THEN <<iface>> ELSE <<>>)
                       \o <<"ex", Lower(payload.type)>>)

\* an event that carries hostname h2 and interface eth1 was stored for a
\* stream that configures h1 and eth0
C39_Witness ==
    /\ answer.op = "handle_integrity"
    /\ answer.stream_cfg.hostname = "h1"
    /\ answer.stream_cfg.interface = "eth0"
    /\ answer.payload.hostname = "h2"
    /\ answer.payload.interface = "eth1"
    /\ answer.payload.type = "kline"
    /\ answer.value.hostname = "h1"
    /\ answer.value.interface = "eth0"

\* the stream configures neither, and the point carries the event's values
C39_WitnessPayload ==
    /\ answer.op = "handle_integrity"
    /\ ~Configured(answer.stream_cfg.hostname)
    /\ ~Configured(answer.stream_cfg.interface)
    /\ answer.payload.type = "kline"
    /\ answer.value.hostname = "h2"
    /\ answer.value.interface = "eth1"

\* the counter name of a retained point: its source, "default" if it has none
NameOfPoint(point) ==
    IF point.source = None \/ point.source = "" THEN "default" ELSE point.source

\* the retained throughput points of the series `keys` whose source is `name`
RECURSIVE RetainedOf(_, _)
RetainedOf(keys, name) ==
    IF keys = {} THEN 0
    ELSE LET key == CHOOSE k \in keys : TRUE
         IN Len(SelectSeq(xdp_series[key], LAMBDA p : NameOfPoint(p) = name))
            + RetainedOf(keys \ {key}, name)

CountNames == {"x1", "x2", "default"}

(***************************************************************************)
(* C40.  In every state of the store the throughput counter of a source     *)
(* name is the number of retained throughput points, over all series,       *)
(* whose source is that name (a point without a source counts for           *)
(* "default"), and a name with no retained point has no counter.            *)
(***************************************************************************)
C40_CountersMatchRetained ==
    /\ DOMAIN xdp_stream_counts \subseteq CountNames
    /\ \A name \in CountNames :
           LET retained == RetainedOf(DOMAIN xdp_series, name)
           IN IF retained = 0
              THEN name \notin DOMAIN xdp_stream_counts
              ELSE /\ name \in DOMAIN xdp_stream_counts
                   /\ xdp_stream_counts[name] = retained

\* a point of x1 was evicted by an add of another source: x1 has no counter
\* left, and the other source counts its point
C40_Witness ==
    /\ \E i \in 1..Len(appended) :
           /\ appended[i].scope = "xdp"
           /\ appended[i].entry.source = "x1"
    /\ "x1" \notin DOMAIN xdp_stream_counts
    /\ \E name \in DOMAIN xdp_stream_counts : xdp_stream_counts[name] >= 1

\* one source has points in two series, and a second source shares a series
C40_WitnessShared ==
    /\ "x1" \in DOMAIN xdp_stream_counts
    /\ xdp_stream_counts["x1"] >= 2
    /\ \E a, b \in DOMAIN xdp_series :
           /\ a # b
           /\ \E p \in 1..Len(xdp_series[a]) : xdp_series[a][p].source = "x1"
           /\ \E p \in 1..Len(xdp_series[b]) : xdp_series[b][p].source = "x1"
           /\ \E p \in 1..Len(xdp_series[a]) : xdp_series[a][p].source # "x1"

====
